---- MODULE Spec2Model ----
(***************************************************************************)
(* Planning core of home-robot: RRTConnect.plan (motion/rrt_connect.py)    *)
(* and the callers of the planner in RobotAgent (agent/multitask/          *)
(* robot_agent.py).                                                        *)
(*                                                                         *)
(* Configurations are the cells 0..MaxPos of a line; the validity map      *)
(* `valid` is the set of cells for which space.is_valid answers true.      *)
(* RRT.step_planner, TreeNode, PlanResult and plan_to_frontier live in     *)
(* modules of the repository that are not part of the source tree at hand  *)
(* (home_robot.motion.rrt, home_robot.motion.base,                         *)
(* home_robot.mapping.voxel); they are modelled after sections 4.4 and 4.5 *)
(* of the specification.                                                   *)
(***************************************************************************)
EXTENDS Integers, Sequences, FiniteSets, TLC

\* ------------------------------------------------------------------ bounds

\* Largest cell of the line of configurations.
MaxPos == 2

\* Number of plan() calls made on one planner object.
MaxCalls == 2

\* RRT's max_iter (a constructor argument of the planner).
MaxIter == 2

\* Longest step of one extension, in cells (the space's step_size).
StepSize == 2

\* run_exploration's try_to_plan_iter, the attempts of plan_to_frontier.
TryToPlanIter == 10

\* Largest instance index of the instance memory.
MaxInst == 1

\* Most goals one sample_near_mask() call yields.
MaxSamples == 2

\* Number of move_to_any_instance() calls made on one agent.
MaxNavCalls == 1

\* Largest threshold handed to filter_matches.
MaxThreshold == 2

\* move_to_any_instance's start_is_valid_retries.
StartRetries == 5

\* Largest column index of the voxel grid.
MaxCol == 0

\* Number of update() calls made on one agent.
MaxUpdates == 2

\* Number of times the interval publisher fires.
MaxTicks == 1

\* Number of write() calls pickle.dump needs for one snapshot record.
RecordChunks == 2

\* The height level inside the obstacle band; level 0 lies below it.
ObstacleLevel == 1

\* Largest cell index a detection's bounds can reach.
MaxBox == 2

\* Number of per-frame detections handed to the instance aggregator.
MaxDets == 3

Poses == 0..MaxPos

Instances == 0..MaxInst

\* The 3D cells of the voxel grid: <<column, height level>>.
Cells == (0..MaxCol) \X (0..ObstacleLevel)

\* ------------------------------------------------------------------- state

VARIABLES
    valid,       \* the validity map: the poses for which self.validate is true
    nodes_fwd,   \* RRTConnect.nodes_fwd: list of TreeNode
    nodes_rev,   \* RRTConnect.nodes_rev: list of TreeNode
    goal_state,  \* RRTConnect.goal_state
    pc,          \* position of the current plan() call
    start,       \* argument of the current plan() call
    goal,        \* argument of the current plan() call
    i,           \* loop variable of "for i in range(self.max_iter)"
    result,      \* the PlanResult returned by the last finished call
    next_id,     \* identity of the next TreeNode object to be constructed
    calls,       \* number of plan() calls started on this planner object
    extended,    \* history: the trees step_planner was run on in this call
    rejects,     \* history: <<return site, result>> of every rejected call
    entry_fwd,   \* history: nodes_fwd when the current call was entered
    entry_rev,   \* history: nodes_rev when the current call was entered
    f_pc,        \* position of the current plan_to_frontier() call
    f_start,     \* plan_to_frontier's start argument
    f_cand,      \* the candidate frontier pose drawn last
    f_tries,     \* number of candidates drawn by this plan_to_frontier() call
    f_planned    \* history: the candidates handed to planner.plan, in order

\* RobotAgent.move_to_any_instance and RobotAgent.filter_matches
VARIABLES
    current_state,    \* RobotAgent.current_state
    object_attempts,  \* RobotAgent._object_attempts: instance index -> count
    n_pc,             \* position of the current move_to_any_instance() call
    n_matches,        \* its argument: the instance indices of the matches
    n_start,          \* local start: the base pose read last
    n_start_valid,    \* local start_is_valid
    n_retries,        \* local start_is_valid_retries
    n_mi,             \* position of "for i, match in matches"
    n_samples,        \* goals sample_near_mask will still yield for this match
    n_goal,           \* local goal: the goal sampled last
    n_res,            \* local res: None, or the outcome of the last plan
    n_calls,          \* number of move_to_any_instance() calls started
    n_checks,         \* history: results of space.is_valid(start) in this call
    n_cmds,           \* history: navigate_to commands sent before planning
    n_plans,          \* history: start_is_valid at each planner.plan call
    flt_in,           \* filter_matches: argument matches of the last call
    flt_th,           \* filter_matches: argument threshold of the last call
    flt_att,          \* history: _object_attempts at the last filter_matches call
    flt_out,          \* filter_matches: value returned by the last call
    flt_goal,         \* get_found_instances_by_class: argument goal of the last call
    flt_mem,          \* history: class names of the instances in memory at that call
    n_entry,          \* history: _object_attempts when the call was entered
    n_unreached,      \* history: instances whose sampled goals all were invalid or did not plan
    n_tried,          \* history: the instances tried by this call, in order
    n_goals,          \* history: the goals handed to planner.plan by this call
    n_won,            \* history: the instance and goal of the plan that succeeded
    n_exec,           \* history: the plans whose trajectory was executed
    n_planned         \* history: planner calls made for the current match

\* RobotAgent's parameters, publisher, voxel map, update() and the snapshots
VARIABLES
    chat,             \* parameters["chat"]: self.chat is not None
    start_ui_server,  \* parameters["start_ui_server"]
    ui_server,        \* whether the demo UI server is running
    publisher,        \* self._publisher: "none" while the attribute is missing
    life,             \* the agent object: constructed, started, deleted
    obs_count,        \* RobotAgent.obs_count
    cells,            \* SparseVoxelMap: the populated 3D cells
    observations,     \* SparseVoxelMap.observations: the history, frame ids
    instances,        \* SparseVoxelMap.get_instances(): the instance set
    u_pc,             \* position of the current update() call
    u_obs,            \* local obs of update(): the frame
    u_reg,            \* update(): self.obs_count as read by "+= 1"
    u_count,          \* local obs_count of update(): the snapshot's timestep
    u_vis,            \* argument visualize_map of update()
    b_pc,             \* position of the publisher's publish_limited_obs()
    b_reg,            \* publish_limited_obs(): self.obs_count as read by "+= 1"
    files,            \* the .pkl files of self.path: timestep -> chunks written
    tmpfiles,         \* atomic_write's temporary files: writer -> chunks written
    crashed,          \* the process was killed
    n_updates,        \* number of update() calls started
    n_ticks,          \* number of publish_limited_obs() calls started
    n_added,          \* history: number of add_obs calls that succeeded
    a_pre,            \* history: the voxel map before the last add_obs call
    a_res,            \* history: outcome of the last add_obs call
    u_pre,            \* history: voxel map and files when update() was entered
    maps_seen         \* history: get_2d_map results since the last add_obs

\* The instance aggregator, and the reads of its instances' embeddings
VARIABLES
    insts,            \* the instances, in get_instances() order
    i_dets,           \* number of detections associated so far
    i_pre,            \* history: the instances before the last associate
    i_det,            \* history: the detection of the last associate
    e_read,           \* history: embeddings returned by the last read of all instances
    c_best            \* history: goal and result of the last choose_best_goal_instance

ivars == <<insts, i_dets, i_pre, i_det, e_read, c_best>>

\* The 2D map the frontier sampler reads, and its last yield
VARIABLES
    s_explored,       \* the explored cells of the 2D map
    s_obstacles,      \* the explored cells that hold an obstacle
    s_pose            \* the pose sample_random_frontier yielded last on this map

svars == <<s_explored, s_obstacles, s_pose>>

\* run_exploration
VARIABLES
    x_pc,             \* position in run_exploration: "idle", a line, "ret<line>" or "raise<line>"
    x_calls,          \* number of run_exploration calls made
    x_iter,           \* explore_iter
    x_random,         \* random_goals
    x_task,           \* task_goal
    x_home,           \* go_home_at_end
    x_dry,            \* dry_run
    x_i,              \* iterations begun so far
    x_res,            \* res: <<>> while unbound, else <<[success, it]>> with the iteration that bound it
    x_matches,        \* matches
    x_mem,            \* class names of voxel_map.get_instances()
    x_log             \* history: what each iteration did, as records [it, ev]

\* LocalHelloRobot
VARIABLES
    base_control_mode,  \* _robot_state.base_control_mode
    bsae_control_mode,  \* _robot_state.bsae_control_mode, "unset" until assigned
    q_arm,              \* _robot_state.q_arm
    q_lift,             \* _robot_state.q_lift
    r_sent,             \* messages and trajectory goals published, as [cmd, mode]
    r_last,             \* the last call made: <<>> or <<[cmd, mode, out]>>
    r_ncalls,           \* number of calls made
    r_nmsgs,            \* number of joint-state messages received
    r_arm_msg           \* history: sum of the arm segments of the last message that had any

rvars == <<base_control_mode, bsae_control_mode, q_arm, q_lift, r_sent, r_last,
           r_ncalls, r_nmsgs, r_arm_msg>>

xvars == <<x_pc, x_calls, x_iter, x_random, x_task, x_home, x_dry, x_i, x_res,
           x_matches, x_mem, x_log>>

fvars == <<f_pc, f_start, f_cand, f_tries, f_planned>>

nvars == <<current_state, object_attempts, n_pc, n_matches, n_start, n_start_valid,
           n_retries, n_mi, n_samples, n_goal, n_res, n_calls, n_checks, n_cmds,
           n_plans, flt_in, flt_th, flt_att, flt_out, flt_goal, flt_mem, n_entry,
           n_unreached,
           n_tried, n_goals, n_won, n_exec, n_planned>>

\* What move_to_any_instance is remembered by.
nhist == <<n_entry, n_unreached, n_tried, n_goals, n_won, n_exec, n_planned>>

uvars == <<chat, start_ui_server, ui_server, publisher, life, obs_count, cells,
           observations, instances, u_pc, u_obs, u_reg, u_count, u_vis, b_pc,
           b_reg, files, tmpfiles, crashed, n_updates, n_ticks,
           n_added, a_pre, a_res, u_pre, maps_seen>>

\* The state of the agent outside the planner and plan_to_frontier.
avars == <<nvars, uvars, ivars, svars, xvars, rvars>>

vars == <<valid, nodes_fwd, nodes_rev, goal_state, pc, start, goal, i, result,
          next_id, calls, extended, rejects, entry_fwd, entry_rev, fvars, avars>>

None == "None"

\* Positions of a plan() call, named by the line the call is at.
InCall == {"l46", "l51", "l57", "l61"}
Returned == {"ret47", "ret52", "ret59", "ret68"}
Raised == {"raise67"}

\* ----------------------------------------------------------------- helpers

\* TreeNode(state, parent=None): a node object; parent is a node identity,
\* 0 for None.
TreeNode(id, state, parent) == [id |-> id, state |-> state, parent |-> parent]

\* PlanResult(success, trajectory=None)
PlanResult(success, trajectory) == [success |-> success, trajectory |-> trajectory]

Dist(a, b) == IF a >= b THEN a - b ELSE b - a

Min(a, b) == IF a <= b THEN a ELSE b

\* space.closest_node_to_state: index of the first node of `nodes` nearest to q.
Nearest(nodes, q) ==
    CHOOSE k \in 1..Len(nodes) :
        /\ \A m \in 1..Len(nodes) : Dist(nodes[k].state, q) <= Dist(nodes[m].state, q)
        /\ \A m \in 1..(k - 1) : Dist(nodes[m].state, q) > Dist(nodes[k].state, q)

\* Number of cells the straight step from `from` toward q can advance: at most
\* StepSize, and only over poses that all pass is_valid (farthest valid sub-step).
Reach(from, q, ok) ==
    LET dir == IF q >= from THEN 1 ELSE -1
        lim == Min(StepSize, Dist(from, q))
        clear == {j \in 0..lim : \A m \in 1..j : (from + dir * m) \in ok}
    IN  CHOOSE j \in clear : \A m \in clear : m <= j

Steer(from, q, ok) == from + (IF q >= from THEN 1 ELSE -1) * Reach(from, q, ok)

NodeById(nodes, id) == CHOOSE k \in 1..Len(nodes) : nodes[k].id = id

\* TreeNode.backup(): the states from the root of the node's tree to the node.
RECURSIVE Backup(_, _)
Backup(nodes, id) ==
    LET n == nodes[NodeById(nodes, id)]
    IN  IF n.parent = 0 \/ ~(\E k \in 1..Len(nodes) : nodes[k].id = n.parent)
        THEN <<n.state>>
        ELSE Append(Backup(nodes, n.parent), n.state)

\* One one-directional RRT pass on `nodes` (step_planner with
\* force_sample_goal=True): extend the nearest node toward the goal `q`. The new
\* node is the end of the step when the full step is collision-free, else the
\* farthest valid sub-step; none is added when the first sub-step is blocked.
\* The pass succeeds when the node added is the goal.
StepPlanner(nodes, q, ok, id) ==
    LET near == nodes[Nearest(nodes, q)]
        blocked == Dist(near.state, q) > 0 /\ Reach(near.state, q, ok) = 0
        new == TreeNode(id, Steer(near.state, q, ok), near.id)
        grown == Append(nodes, new)
    IN  IF blocked
        THEN [nodes |-> nodes, added |-> FALSE, res |-> PlanResult(FALSE, <<>>)]
        ELSE [nodes |-> grown, added |-> TRUE,
              res |-> IF new.state = q
                      THEN PlanResult(TRUE, Backup(grown, id))
                      ELSE PlanResult(FALSE, <<>>)]

\* The accumulated state of a SparseVoxelMap.
VoxelMap(cs, obs, inst) == [cells |-> cs, observations |-> obs, instances |-> inst]

\* A frame of robot.get_observation(): its identity, whether its shapes agree
\* with the intrinsics, the cells its in-range points fall into, and the
\* instances the perception call found in it.
Frame(id, ok, pts, det) == [id |-> id, shape_ok |-> ok, pts |-> pts, det |-> det]

NoFrame == Frame(0, FALSE, {}, {})

\* ----------------------------------------------------------------- actions

\* RobotAgent.__init__: the agent's own fields, and no call in progress.
AgentInit ==
    /\ current_state = "WAITING"
    /\ object_attempts = <<>>
    /\ n_pc = "idle"
    /\ n_matches = <<>>
    /\ n_start = 0
    /\ n_start_valid = FALSE
    /\ n_retries = 0
    /\ n_mi = 0
    /\ n_samples = 0
    /\ n_goal = 0
    /\ n_res = None
    /\ n_calls = 0
    /\ n_checks = <<>>
    /\ n_cmds = <<>>
    /\ n_plans = {}
    /\ flt_in = <<>>
    /\ flt_th = 0
    /\ flt_att = <<>>
    /\ flt_out = <<>>
    /\ flt_goal = None
    /\ flt_mem = <<>>
    /\ n_entry = <<>>
    /\ n_unreached = {}
    /\ n_tried = <<>>
    /\ n_goals = {}
    /\ n_won = <<>>
    /\ n_exec = <<>>
    /\ n_planned = 0
    /\ life = "constructed"
    /\ obs_count = 0
    /\ cells = {}
    /\ observations = <<>>
    /\ instances = {}
    /\ u_pc = "idle"
    /\ u_obs = NoFrame
    /\ u_reg = 0
    /\ u_count = 0
    /\ u_vis = FALSE
    /\ b_pc = "idle"
    /\ b_reg = 0
    /\ files = <<>>
    /\ tmpfiles = <<>>
    /\ crashed = FALSE
    /\ n_updates = 0
    /\ n_ticks = 0
    /\ n_added = 0
    /\ a_pre = VoxelMap({}, <<>>, {})
    /\ a_res = None
    /\ u_pre = [map |-> VoxelMap({}, <<>>, {}), files |-> <<>>]
    /\ maps_seen = <<>>
    /\ insts = <<>>
    /\ i_dets = 0
    /\ i_pre = <<>>
    /\ i_det = <<>>
    /\ e_read = <<>>
    /\ c_best = <<>>
    /\ s_explored = {}
    /\ s_obstacles = {}
    /\ s_pose = <<>>
    /\ x_pc = "idle"
    /\ x_calls = 0
    /\ x_iter = 0
    /\ x_random = FALSE
    /\ x_task = None
    /\ x_home = FALSE
    /\ x_dry = FALSE
    /\ x_i = 0
    /\ x_res = <<>>
    /\ x_matches = <<>>
    /\ x_mem = <<>>
    /\ x_log = <<>>
    /\ base_control_mode = "IDLE"
    /\ bsae_control_mode = "unset"
    /\ q_arm = 0
    /\ q_lift = 0
    /\ r_sent = {}
    /\ r_last = <<>>
    /\ r_ncalls = 0
    /\ r_nmsgs = 0
    /\ r_arm_msg = <<>>

\* RobotAgent.__init__, lines 148-159, for given parameters: the UI server is
\* started if asked for, and the publisher is created only with chat.
Configure(c, u) ==
    /\ chat = c
    /\ start_ui_server = u
    /\ ui_server = u
    /\ publisher = IF c THEN "created" ELSE "none"

\* RRTConnect.__init__ / reset on a fresh planner object.
PlannerInit ==
    /\ nodes_fwd = <<>>
    /\ nodes_rev = <<>>
    /\ goal_state = None
    /\ pc = "idle"
    /\ start = 0
    /\ goal = 0
    /\ i = 0
    /\ result = None
    /\ next_id = 1
    /\ calls = 0
    /\ extended = <<>>
    /\ rejects = {}
    /\ entry_fwd = <<>>
    /\ entry_rev = <<>>
    /\ f_pc = "idle"
    /\ f_start = 0
    /\ f_cand = 0
    /\ f_tries = 0
    /\ f_planned = <<>>

\* A fresh planner on some map, owned by an agent; the planner and the
\* navigation calls read neither parameter of Configure.
Init ==
    /\ valid \in SUBSET Poses
    /\ PlannerInit
    /\ AgentInit
    /\ Configure(FALSE, FALSE)

\* A fresh agent without chat and UI server, with nothing mapped yet.
InitPlain ==
    /\ valid = {}
    /\ PlannerInit
    /\ AgentInit
    /\ Configure(FALSE, FALSE)

\* A fresh agent under every configuration; nothing is mapped yet, so no pose
\* passes is_valid.
InitAgent ==
    /\ valid = {}
    /\ PlannerInit
    /\ AgentInit
    /\ \E c \in BOOLEAN, u \in BOOLEAN : Configure(c, u)

\* The map is updated between plan() calls (RobotAgent.update), never during
\* one; the finished call's caller has moved on.
UpdateMap ==
    /\ pc \notin InCall
    /\ f_pc = "idle"
    /\ calls < MaxCalls
    /\ valid' \in SUBSET Poses
    /\ valid' # valid
    /\ pc' = "idle"
    /\ UNCHANGED <<nodes_fwd, nodes_rev, goal_state, start, goal, i, result,
                   next_id, calls, extended, rejects, entry_fwd, entry_rev>>
    /\ UNCHANGED fvars
    /\ UNCHANGED avars

\* plan(start, goal) is entered (line 44): nothing of the planner is reset.
EnterPlan(s, g) ==
    /\ start' = s
    /\ goal' = g
    /\ pc' = "l46"
    /\ i' = 0
    /\ calls' = calls + 1
    /\ extended' = <<>>
    /\ entry_fwd' = nodes_fwd
    /\ entry_rev' = nodes_rev
    /\ UNCHANGED <<valid, nodes_fwd, nodes_rev, goal_state, result, next_id, rejects>>

\* A caller other than plan_to_frontier (go_home, move_to_any_instance) plans.
Call ==
    /\ pc \notin InCall
    /\ f_pc = "idle"
    /\ calls < MaxCalls
    /\ \E s \in Poses, g \in Poses : EnterPlan(s, g)
    /\ UNCHANGED fvars
    /\ UNCHANGED avars

\* ValidateStart with the seeding of the forward tree moved before the check.
ValidateStart_SeedsFirst ==
    /\ pc = "l46"
    /\ nodes_fwd' = Append(nodes_fwd, TreeNode(next_id, start, 0))
    /\ next_id' = next_id + 1
    /\ IF start \notin valid
       THEN /\ result' = PlanResult(FALSE, <<>>)
            /\ pc' = "ret47"
            /\ rejects' = rejects \cup {<<"ret47", PlanResult(FALSE, <<>>)>>}
       ELSE /\ pc' = "l51"
            /\ UNCHANGED <<result, rejects>>
    /\ UNCHANGED <<valid, nodes_rev, goal_state, start, goal, i, calls, extended,
                   entry_fwd, entry_rev>>
    /\ UNCHANGED fvars
    /\ UNCHANGED avars

\* Lines 46-49: validate the start, then seed the forward tree.
ValidateStart ==
    /\ pc = "l46"
    /\ IF start \notin valid
       THEN /\ result' = PlanResult(FALSE, <<>>)
            /\ pc' = "ret47"
            /\ rejects' = rejects \cup {<<"ret47", PlanResult(FALSE, <<>>)>>}
            /\ UNCHANGED <<nodes_fwd, next_id>>
       ELSE /\ nodes_fwd' = Append(nodes_fwd, TreeNode(next_id, start, 0))
            /\ next_id' = next_id + 1
            /\ pc' = "l51"
            /\ UNCHANGED <<result, rejects>>
    /\ UNCHANGED <<valid, nodes_rev, goal_state, start, goal, i, calls, extended,
                   entry_fwd, entry_rev>>
    /\ UNCHANGED fvars
    /\ UNCHANGED avars

\* Lines 51-54: validate the goal, then seed the reverse tree.
ValidateGoal ==
    /\ pc = "l51"
    /\ IF goal \notin valid
       THEN /\ result' = PlanResult(FALSE, <<>>)
            /\ pc' = "ret52"
            /\ rejects' = rejects \cup {<<"ret52", PlanResult(FALSE, <<>>)>>}
            /\ UNCHANGED <<nodes_rev, next_id>>
       ELSE /\ nodes_rev' = Append(nodes_rev, TreeNode(next_id, goal, 0))
            /\ next_id' = next_id + 1
            /\ pc' = "l57"
            /\ UNCHANGED <<result, rejects>>
    /\ UNCHANGED <<valid, nodes_fwd, goal_state, start, goal, i, calls, extended,
                   entry_fwd, entry_rev>>
    /\ UNCHANGED fvars
    /\ UNCHANGED avars

\* Lines 57-59: one RRT pass on the forward tree; its success is returned.
FirstStep ==
    /\ pc = "l57"
    /\ LET r == StepPlanner(nodes_fwd, goal, valid, next_id)
       IN  /\ nodes_fwd' = r.nodes
           /\ next_id' = IF r.added THEN next_id + 1 ELSE next_id
           /\ extended' = Append(extended, "fwd")
           /\ IF r.res.success
              THEN /\ result' = r.res
                   /\ pc' = "ret59"
              ELSE /\ pc' = "l61"
                   /\ UNCHANGED result
    /\ UNCHANGED <<valid, nodes_rev, goal_state, start, goal, i, calls, rejects,
                   entry_fwd, entry_rev>>
    /\ UNCHANGED fvars
    /\ UNCHANGED avars

\* Lines 61-65: one iteration of the loop, whose body is "pass".
LoopIter ==
    /\ pc = "l61"
    /\ i < MaxIter
    /\ i' = i + 1
    /\ UNCHANGED <<valid, nodes_fwd, nodes_rev, goal_state, pc, start, goal, result,
                   next_id, calls, extended, rejects, entry_fwd, entry_rev>>
    /\ UNCHANGED fvars
    /\ UNCHANGED avars

\* Line 67: after the loop, raise NotImplementedError (line 68 is never reached).
LoopExit ==
    /\ pc = "l61"
    /\ i = MaxIter
    /\ pc' = "raise67"
    /\ UNCHANGED <<valid, nodes_fwd, nodes_rev, goal_state, start, goal, i, result,
                   next_id, calls, extended, rejects, entry_fwd, entry_rev>>
    /\ UNCHANGED fvars
    /\ UNCHANGED avars

Next ==
    \/ UpdateMap
    \/ Call
    \/ ValidateStart
    \/ ValidateGoal
    \/ FirstStep
    \/ LoopIter
    \/ LoopExit

Spec == Init /\ [][Next]_vars

\* ------------------------------------------------------- plan_to_frontier

pvars == <<valid, nodes_fwd, nodes_rev, goal_state, pc, start, goal, i, result,
           next_id, calls, extended, rejects, entry_fwd, entry_rev>>

\* run_exploration calls plan_to_frontier(start, planner, space, voxel_map,
\* try_to_plan_iter) on the agent's planner.
FrontierCall ==
    /\ f_pc = "idle"
    /\ pc \notin InCall
    /\ \E s \in Poses : f_start' = s
    /\ f_pc' = "draw"
    /\ f_tries' = 0
    /\ f_planned' = <<>>
    /\ UNCHANGED f_cand
    /\ UNCHANGED pvars
    /\ UNCHANGED avars

\* One attempt: draw a candidate frontier pose; an invalid one is skipped, a
\* valid one is handed to planner.plan(start, candidate).
FrontierDraw ==
    /\ f_pc = "draw"
    /\ f_tries < TryToPlanIter
    /\ \E c \in Poses :
        /\ f_cand' = c
        /\ IF c \notin valid
           THEN /\ UNCHANGED <<f_pc, f_planned>>
                /\ UNCHANGED pvars
           ELSE /\ f_pc' = "plan"
                /\ f_planned' = Append(f_planned, c)
                /\ EnterPlan(f_start, c)
    /\ f_tries' = f_tries + 1
    /\ UNCHANGED f_start
    /\ UNCHANGED avars

\* planner.plan returned success: plan_to_frontier returns that result.
FrontierSuccess ==
    /\ f_pc = "plan"
    /\ pc \in Returned
    /\ result.success
    /\ f_pc' = "ret_success"
    /\ UNCHANGED <<f_start, f_cand, f_tries, f_planned>>
    /\ UNCHANGED pvars
    /\ UNCHANGED avars

\* planner.plan returned a failure: the next attempt follows.
FrontierRetry ==
    /\ f_pc = "plan"
    /\ pc \in Returned
    /\ ~result.success
    /\ f_pc' = "draw"
    /\ UNCHANGED <<f_start, f_cand, f_tries, f_planned>>
    /\ UNCHANGED pvars
    /\ UNCHANGED avars

\* planner.plan raised: the exception leaves plan_to_frontier.
FrontierRaise ==
    /\ f_pc = "plan"
    /\ pc \in Raised
    /\ f_pc' = "raised"
    /\ UNCHANGED <<f_start, f_cand, f_tries, f_planned>>
    /\ UNCHANGED pvars
    /\ UNCHANGED avars

\* All attempts are used up: the failure result is returned.
FrontierExhausted ==
    /\ f_pc = "draw"
    /\ f_tries = TryToPlanIter
    /\ f_pc' = "ret_none"
    /\ UNCHANGED <<f_start, f_cand, f_tries, f_planned>>
    /\ UNCHANGED pvars
    /\ UNCHANGED avars

NextFrontier ==
    \/ FrontierCall
    \/ FrontierDraw
    \/ FrontierSuccess
    \/ FrontierRetry
    \/ FrontierRaise
    \/ FrontierExhausted
    \/ ValidateStart
    \/ ValidateGoal
    \/ FirstStep
    \/ LoopIter
    \/ LoopExit

SpecFrontier == Init /\ [][NextFrontier]_vars

\* --------------------------------------------------- move_to_any_instance

\* The outcomes of self.planner.plan(start, goal): a PlanResult with success,
\* a PlanResult without, or the planner's exception.
PlanOutcomes == {"success", "failure", "raised"}

\* Lists of (i, instance) as get_found_instances_by_class builds them: instance
\* indices in the order of the instance memory.
MatchLists ==
    {m \in UNION {[1..n -> Instances] : n \in 0..(MaxInst + 1)} :
        \A k \in 1..(Len(m) - 1) : m[k] < m[k + 1]}

\* navigate_to([-0.1, 0, 0], relative=True), in units of 0.1 m.
BackUp == [xyt |-> <<-1, 0, 0>>, relative |-> TRUE]

NavDone == {"ret272", "ret274", "raise220", "raise245"}

\* Lines 204-208: enter move_to_any_instance(matches); read and check the pose.
NavCall ==
    /\ n_pc = "idle"
    /\ n_calls < MaxNavCalls
    /\ n_calls' = n_calls + 1
    /\ current_state' = "NAV_TO_INSTANCE"
    /\ n_matches' \in MatchLists
    /\ n_start' \in Poses
    /\ n_start_valid' = (n_start' \in valid)
    /\ n_retries' = StartRetries
    /\ n_checks' = <<n_start' \in valid>>
    /\ n_cmds' = <<>>
    /\ n_plans' = {}
    /\ n_mi' = 0
    /\ n_samples' = 0
    /\ n_goal' = 0
    /\ n_res' = None
    /\ n_pc' = "l209"
    /\ flt_in' = <<>> /\ flt_th' = 0 /\ flt_att' = <<>> /\ flt_out' = <<>>
    /\ flt_goal' = None /\ flt_mem' = <<>>
    /\ UNCHANGED object_attempts
    /\ n_entry' = object_attempts
    /\ n_unreached' = {}
    /\ n_tried' = <<>>
    /\ n_goals' = {}
    /\ n_won' = <<>>
    /\ n_exec' = <<>>
    /\ n_planned' = 0
    /\ UNCHANGED <<pvars, fvars, uvars, ivars, svars, xvars, rvars>>

\* NavBackUp with the retry test off by one.
NavBackUp_OffByOne ==
    /\ n_pc = "l209"
    /\ ~n_start_valid /\ n_retries >= 0
    /\ n_cmds' = Append(n_cmds, BackUp)
    /\ n_start' \in Poses
    /\ n_start_valid' = (n_start' \in valid)
    /\ n_checks' = Append(n_checks, n_start' \in valid)
    /\ n_retries' = n_retries - 1
    /\ UNCHANGED <<current_state, object_attempts, n_pc, n_matches, n_mi, n_samples,
                   n_res, n_calls, n_plans, flt_in, flt_th, flt_att, flt_out,
                   flt_goal, flt_mem>>
    /\ UNCHANGED n_goal
    /\ UNCHANGED nhist
    /\ UNCHANGED <<pvars, fvars, uvars, ivars, svars, xvars, rvars>>

\* Lines 209-215: the start is invalid and retries are left: back up 0.1 m, read
\* the pose again and check it again.
NavBackUp ==
    /\ n_pc = "l209"
    /\ ~n_start_valid /\ n_retries > 0
    /\ n_cmds' = Append(n_cmds, BackUp)
    /\ n_start' \in Poses
    /\ n_start_valid' = (n_start' \in valid)
    /\ n_checks' = Append(n_checks, n_start' \in valid)
    /\ n_retries' = n_retries - 1
    /\ UNCHANGED <<current_state, object_attempts, n_pc, n_matches, n_mi, n_samples,
                   n_res, n_calls, n_plans, flt_in, flt_th, flt_att, flt_out,
                   flt_goal, flt_mem>>
    /\ UNCHANGED n_goal
    /\ UNCHANGED nhist
    /\ UNCHANGED <<pvars, fvars, uvars, ivars, svars, xvars, rvars>>

\* Lines 209, 216-220: the loop ends; a start that is still invalid raises
\* RuntimeError("Invalid start state!").
NavLoopEnd ==
    /\ n_pc = "l209"
    /\ n_start_valid \/ n_retries = 0
    /\ n_res' = None
    /\ n_pc' = IF n_start_valid THEN "l223" ELSE "raise220"
    /\ n_mi' = IF n_start_valid THEN 1 ELSE n_mi
    /\ UNCHANGED <<current_state, object_attempts, n_matches, n_start, n_start_valid,
                   n_retries, n_samples, n_calls, n_checks, n_cmds, n_plans,
                   flt_in, flt_th, flt_att, flt_out,
                   flt_goal, flt_mem>>
    /\ UNCHANGED n_goal
    /\ UNCHANGED nhist
    /\ UNCHANGED <<pvars, fvars, uvars, ivars, svars, xvars, rvars>>

\* Lines 223-231: the next match: res = None, and sample_near_mask is started.
NavNextMatch ==
    /\ n_pc = "l223"
    /\ n_mi <= Len(n_matches)
    /\ n_res' = None
    /\ n_samples' \in 0..MaxSamples
    /\ n_pc' = "l231"
    /\ UNCHANGED <<current_state, object_attempts, n_matches, n_start, n_start_valid,
                   n_retries, n_mi, n_calls, n_checks, n_cmds, n_plans,
                   flt_in, flt_th, flt_att, flt_out,
                   flt_goal, flt_mem>>
    /\ UNCHANGED n_goal
    /\ n_tried' = Append(n_tried, n_matches[n_mi])
    /\ n_planned' = 0
    /\ UNCHANGED <<n_entry, n_unreached, n_goals, n_won, n_exec>>
    /\ UNCHANGED <<pvars, fvars, uvars, ivars, svars, xvars, rvars>>

\* Variant: an invalid goal is resampled without using up a candidate.
NavGoalInvalid_Resamples ==
    /\ n_pc = "l231"
    /\ n_samples > 0
    /\ \E g \in Poses : g \notin valid /\ n_goal' = g
    /\ UNCHANGED <<current_state, object_attempts, n_pc, n_matches, n_start,
                   n_start_valid, n_retries, n_mi, n_res, n_calls, n_checks, n_cmds,
                   n_plans, flt_in, flt_th, flt_att, flt_out,
                   flt_goal, flt_mem, n_samples>>
    /\ UNCHANGED nhist
    /\ UNCHANGED <<pvars, fvars, uvars, ivars, svars, xvars, rvars>>

\* Lines 231-242: a sampled goal that is not valid is skipped.
NavGoalInvalid ==
    /\ n_pc = "l231"
    /\ n_samples > 0
    /\ \E g \in Poses : g \notin valid /\ n_goal' = g
    /\ n_samples' = n_samples - 1
    /\ UNCHANGED <<current_state, object_attempts, n_pc, n_matches, n_start,
                   n_start_valid, n_retries, n_mi, n_res, n_calls, n_checks, n_cmds,
                   n_plans, flt_in, flt_th, flt_att, flt_out,
                   flt_goal, flt_mem>>
    /\ UNCHANGED nhist
    /\ UNCHANGED <<pvars, fvars, uvars, ivars, svars, xvars, rvars>>

\* Lines 231-248, 256-257: plan to a valid sampled goal; success leaves both
\* loops, a failure goes on with the next sample, an exception leaves the call.
NavPlan ==
    /\ n_pc = "l231"
    /\ n_samples > 0
    /\ \E g \in Poses : g \in valid /\ n_goal' = g
    /\ n_goals' = n_goals \cup {n_goal'}
    /\ n_samples' = n_samples - 1
    /\ n_plans' = n_plans \cup {n_start_valid}
    /\ \E out \in PlanOutcomes :
        /\ n_res' = IF out = "raised" THEN n_res ELSE out
        /\ n_pc' = CASE out = "success" -> "l259"
                     [] out = "failure" -> "l231"
                     [] out = "raised" -> "raise245"
        /\ n_won' = IF out = "success"
                    THEN <<[inst |-> n_matches[n_mi], goal |-> n_goal']>>
                    ELSE n_won
        /\ n_unreached' = IF out = "raised"
                          THEN n_unreached \cup {n_matches[n_mi]}
                          ELSE n_unreached
    /\ UNCHANGED <<current_state, object_attempts, n_matches, n_start, n_start_valid,
                   n_retries, n_mi, n_calls, n_checks, n_cmds,
                   flt_in, flt_th, flt_att, flt_out,
                   flt_goal, flt_mem>>
    /\ n_planned' = n_planned + 1
    /\ UNCHANGED <<n_entry, n_tried, n_exec>>
    /\ UNCHANGED <<pvars, fvars, uvars, ivars, svars, xvars, rvars>>

\* Lines 249-257: the samples of this match are used up without a break: count
\* the attempt and go on with the next match.
NavMatchFailed ==
    /\ n_pc = "l231"
    /\ n_samples = 0
    /\ LET inst == n_matches[n_mi]
       IN  object_attempts' =
               [k \in DOMAIN object_attempts \cup {inst} |->
                   IF k = inst
                   THEN (IF inst \in DOMAIN object_attempts
                         THEN object_attempts[inst] + 1 ELSE 1)
                   ELSE object_attempts[k]]
    /\ n_mi' = n_mi + 1
    /\ n_pc' = "l223"
    /\ UNCHANGED <<current_state, n_matches, n_start, n_start_valid, n_retries,
                   n_samples, n_res, n_calls, n_checks, n_cmds, n_plans,
                   flt_in, flt_th, flt_att, flt_out,
                   flt_goal, flt_mem>>
    /\ UNCHANGED n_goal
    /\ n_unreached' = n_unreached \cup {n_matches[n_mi]}
    /\ UNCHANGED <<n_entry, n_tried, n_goals, n_won, n_exec, n_planned>>
    /\ UNCHANGED <<pvars, fvars, uvars, ivars, svars, xvars, rvars>>

\* Lines 223, 259: no match is left.
NavMatchesDone ==
    /\ n_pc = "l223"
    /\ n_mi > Len(n_matches)
    /\ n_pc' = "l259"
    /\ UNCHANGED <<current_state, object_attempts, n_matches, n_start, n_start_valid,
                   n_retries, n_mi, n_samples, n_res, n_calls, n_checks, n_cmds,
                   n_plans, flt_in, flt_th, flt_att, flt_out,
                   flt_goal, flt_mem>>
    /\ UNCHANGED n_goal
    /\ UNCHANGED nhist
    /\ UNCHANGED <<pvars, fvars, uvars, ivars, svars, xvars, rvars>>

\* Lines 259-274: execute the plan found and return True, else return False.
NavFinish ==
    /\ n_pc = "l259"
    /\ n_pc' = IF n_res # None /\ n_res = "success" THEN "ret272" ELSE "ret274"
    /\ UNCHANGED <<current_state, object_attempts, n_matches, n_start, n_start_valid,
                   n_retries, n_mi, n_samples, n_res, n_calls, n_checks, n_cmds,
                   n_plans, flt_in, flt_th, flt_att, flt_out,
                   flt_goal, flt_mem>>
    /\ UNCHANGED n_goal
    /\ n_exec' = IF n_res = "success" THEN Append(n_exec, n_won[1]) ELSE n_exec
    /\ UNCHANGED <<n_entry, n_unreached, n_tried, n_goals, n_won, n_planned>>
    /\ UNCHANGED <<pvars, fvars, uvars, ivars, svars, xvars, rvars>>

\* An off-by-one filter: "<=" in place of "<".
RECURSIVE FilterMatches_AtMost(_, _, _)
FilterMatches_AtMost(matches, attempts, threshold) ==
    IF matches = <<>>
    THEN <<>>
    ELSE LET inst == Head(matches)
             rest == FilterMatches_AtMost(Tail(matches), attempts, threshold)
         IN  IF inst \notin DOMAIN attempts \/ attempts[inst] <= threshold
             THEN <<inst>> \o rest
             ELSE rest

\* filter_matches (lines 327-333): the matches not yet tried `threshold` times.
RECURSIVE FilterMatches(_, _, _)
FilterMatches(matches, attempts, threshold) ==
    IF matches = <<>>
    THEN <<>>
    ELSE LET inst == Head(matches)
             rest == FilterMatches(Tail(matches), attempts, threshold)
         IN  IF inst \notin DOMAIN attempts \/ attempts[inst] < threshold
             THEN <<inst>> \o rest
             ELSE rest

\* The call has ended (return at 272/274, or the exception of 220/245 has
\* left the function): its frame is gone.
NavLeave ==
    /\ n_pc \in NavDone
    /\ n_pc' = "idle"
    /\ n_matches' = <<>>
    /\ n_start' = 0
    /\ n_start_valid' = FALSE
    /\ n_retries' = 0
    /\ n_mi' = 0
    /\ n_samples' = 0
    /\ n_goal' = 0
    /\ n_res' = None
    /\ n_checks' = <<>>
    /\ n_cmds' = <<>>
    /\ n_plans' = {}
    /\ UNCHANGED <<current_state, object_attempts, n_calls, flt_in, flt_th,
                   flt_att, flt_out,
                   flt_goal, flt_mem>>
    /\ n_entry' = <<>>
    /\ n_unreached' = {}
    /\ n_tried' = <<>>
    /\ n_goals' = {}
    /\ n_won' = <<>>
    /\ n_exec' = <<>>
    /\ n_planned' = 0
    /\ UNCHANGED <<pvars, fvars, uvars, ivars, svars, xvars, rvars>>

\* The class names semantic_sensor.get_class_name_for_id gives, and the goals
\* a caller asks for.
ClassNames == {"Cup", "bed"}

Goals == {None, "cup", "bed", "sofa"}

\* str.lower()
Lower(name) == IF name = "Cup" THEN "cup" ELSE name

\* The instance memories voxel_map.get_instances() can return, as the class
\* name of each instance: position k holds the instance of index k - 1.
Memories == UNION {[1..n -> ClassNames] : n \in 0..(MaxInst + 1)}

\* A class test that compares the names as they are.
RECURSIVE MatchingInstances_CaseSensitive(_, _, _)
MatchingInstances_CaseSensitive(mem, g, k) ==
    IF k > Len(mem)
    THEN <<>>
    ELSE (IF mem[k] = g THEN <<k - 1>> ELSE <<>>)
             \o MatchingInstances_CaseSensitive(mem, g, k + 1)

\* Lines 319-324: the indices, from position k on, of the instances whose
\* class name equals the goal when both are lowered.
RECURSIVE MatchingInstances(_, _, _)
MatchingInstances(mem, g, k) ==
    IF k > Len(mem)
    THEN <<>>
    ELSE (IF Lower(mem[k]) = Lower(g) THEN <<k - 1>> ELSE <<>>)
             \o MatchingInstances(mem, g, k + 1)

\* get_found_instances_by_class (lines 311-325) with some goal and threshold,
\* as the first query since the last move_to_any_instance call: no goal gives
\* [] at once; else the instances of the goal's class go through
\* filter_matches.
GetFound ==
    /\ n_pc = "idle"
    /\ flt_in = <<>> /\ flt_th = 0 /\ flt_goal = None /\ flt_mem = <<>>
    /\ \E mem \in Memories, g \in Goals, th \in 0..MaxThreshold :
        /\ flt_mem' = mem
        /\ flt_goal' = g
        /\ flt_th' = th
        /\ flt_att' = object_attempts
        /\ flt_in' = IF g = None THEN <<>> ELSE MatchingInstances(mem, g, 1)
        /\ flt_out' = IF g = None
                      THEN <<>>
                      ELSE FilterMatches(MatchingInstances(mem, g, 1),
                                         object_attempts, th)
    /\ UNCHANGED <<current_state, object_attempts, n_pc, n_matches, n_start,
                   n_start_valid, n_retries, n_mi, n_samples, n_goal, n_res,
                   n_calls, n_checks, n_cmds, n_plans>>
    /\ UNCHANGED nhist
    /\ UNCHANGED <<pvars, fvars, uvars, ivars, svars, xvars, rvars>>

NextNav ==
    \/ NavCall
    \/ NavBackUp
    \/ NavLoopEnd
    \/ NavNextMatch
    \/ NavGoalInvalid
    \/ NavPlan
    \/ NavMatchFailed
    \/ NavMatchesDone
    \/ NavFinish
    \/ NavLeave
    \/ GetFound

SpecNav == Init /\ [][NextNav]_vars

\* The steps of a running move_to_any_instance call.
NavStep ==
    \/ NavBackUp
    \/ NavLoopEnd
    \/ NavNextMatch
    \/ NavGoalInvalid
    \/ NavPlan
    \/ NavMatchFailed
    \/ NavMatchesDone
    \/ NavFinish

\* The thread running the call is scheduled: a call that can go on does.
SpecNavFair == SpecNav /\ WF_vars(NavStep)

\* ------------------------------- update, the snapshots and the publisher

cfgvars == <<chat, start_ui_server>>
lifevars == <<ui_server, publisher, life>>
mapvars == <<cells, observations, instances>>
updvars == <<u_pc, u_obs, u_reg, u_count, u_vis>>
bgvars == <<b_pc, b_reg>>
fsvars == <<files, tmpfiles>>
histvars == <<n_added, a_pre, a_res, u_pre, maps_seen>>

\* Positions at which an update() call has ended: returned, or raised at the
\* line named.
UpdDone == {"ret200", "raise190", "raise193", "raise39"}

\* The point sets a frame can contribute: depth filtering may drop every
\* point, otherwise the points fall into one cell.
PointSets == {{}} \cup {{c} : c \in Cells}

\* The frames get_observation can return, before perception: one whose shapes
\* disagree with the intrinsics cannot be unpacked into points.
Frames == {Frame(0, TRUE, pts, {}) : pts \in PointSets} \cup {Frame(0, FALSE, {}, {})}

\* The detections of one frame: none, or one instance.
Detections == {{}} \cup {{inst} : inst \in Instances}

\* add_obs appending the frame to the history before validating it.
AddObs_LogsInvalid(m, frame) ==
    IF ~frame.shape_ok
    THEN [map |-> VoxelMap(m.cells, Append(m.observations, frame.id), m.instances),
          err |-> "InvalidObservationError"]
    ELSE [map |-> VoxelMap(m.cells \cup frame.pts,
                           Append(m.observations, frame.id),
                           m.instances \cup frame.det),
          err |-> "ok"]

\* add_obs keeping only the cells of the newest frame.
AddObs_Replaces(m, frame) ==
    IF ~frame.shape_ok
    THEN [map |-> m, err |-> "InvalidObservationError"]
    ELSE [map |-> VoxelMap(frame.pts,
                           Append(m.observations, frame.id),
                           m.instances \cup frame.det),
          err |-> "ok"]

\* SparseVoxelMap.add_obs: a frame whose shapes disagree with the intrinsics
\* fails with InvalidObservationError; otherwise its points are accumulated
\* into their cells, the frame is appended to the history, and its detections
\* are associated into the instance set.
AddObs(m, frame) ==
    IF ~frame.shape_ok
    THEN [map |-> m, err |-> "InvalidObservationError"]
    ELSE [map |-> VoxelMap(m.cells \cup frame.pts,
                           Append(m.observations, frame.id),
                           m.instances \cup frame.det),
          err |-> "ok"]

\* SparseVoxelMap.get_2d_map: a column is explored if any of its cells is
\* populated, and an obstacle if a populated cell lies in the obstacle band.
Get2dMap(cs) ==
    [obstacles |-> {c[1] : c \in {d \in cs : d[2] = ObstacleLevel}},
     explored |-> {c[1] : c \in cs}]

\* What one get_2d_map call is remembered by: the masks it returned and the
\* grid it was called on.
MapCall(cs) == [masks |-> Get2dMap(cs), grid |-> cs]

CurrentMap == VoxelMap(cells, observations, instances)

\* update() ends at `site`: its frame, with the locals, is gone.
UpdLeave(site) ==
    /\ u_pc' = site
    /\ u_obs' = NoFrame
    /\ u_reg' = 0
    /\ u_count' = 0
    /\ u_vis' = FALSE

\* update(), lines 184-187: get_observation, and the read of "obs_count += 1".
UpdEnter ==
    /\ ~crashed
    /\ life = "started"
    /\ u_pc \in {"idle"} \cup UpdDone
    /\ n_updates < MaxUpdates
    /\ n_updates' = n_updates + 1
    /\ \E fr \in Frames : u_obs' = [fr EXCEPT !.id = n_updates + 1]
    /\ u_vis' \in BOOLEAN
    /\ u_reg' = obs_count
    /\ u_count' = 0
    /\ u_pre' = [map |-> CurrentMap, files |-> files]
    /\ u_pc' = "l187"
    /\ UNCHANGED <<cfgvars, lifevars, mapvars, bgvars, fsvars, obs_count,
                   crashed, n_ticks, n_added, a_pre, a_res, maps_seen>>
    /\ UNCHANGED <<pvars, fvars, nvars, ivars, svars, xvars, rvars>>

\* update(), line 187: the write of "obs_count += 1".
UpdStore ==
    /\ ~crashed
    /\ u_pc = "l187"
    /\ obs_count' = u_reg + 1
    /\ u_pc' = "l188"
    /\ UNCHANGED <<cfgvars, lifevars, mapvars, bgvars, fsvars, histvars,
                   u_obs, u_reg, u_count, u_vis, crashed, n_updates,
                   n_ticks>>
    /\ UNCHANGED <<pvars, fvars, nvars, ivars, svars, xvars, rvars>>

\* update(), lines 188-190: obs_count is copied, and semantic_sensor.predict
\* returns the frame with its detections.
UpdPredict ==
    /\ ~crashed
    /\ u_pc = "l188"
    /\ u_count' = obs_count
    /\ \E det \in Detections : u_obs' = [u_obs EXCEPT !.det = det]
    /\ u_pc' = "l193"
    /\ UNCHANGED <<cfgvars, lifevars, mapvars, bgvars, fsvars, histvars,
                   u_reg, u_vis, obs_count, crashed, n_updates,
                   n_ticks>>
    /\ UNCHANGED <<pvars, fvars, nvars, ivars, svars, xvars, rvars>>

\* update() with add_obs's accumulation moved before the perception call.
UpdPredictRaise_AddsFirst ==
    /\ ~crashed
    /\ u_pc = "l188"
    /\ cells' = cells \cup u_obs.pts
    /\ observations' = Append(observations, u_obs.id)
    /\ UpdLeave("raise190")
    /\ UNCHANGED <<cfgvars, lifevars, instances, bgvars, fsvars, histvars,
                   obs_count, crashed,
                   n_updates, n_ticks>>
    /\ UNCHANGED <<pvars, fvars, nvars, ivars, svars, xvars, rvars>>

\* update(), lines 188-190: semantic_sensor.predict raises; nothing catches
\* it, so update() ends there.
UpdPredictRaise ==
    /\ ~crashed
    /\ u_pc = "l188"
    /\ UpdLeave("raise190")
    /\ UNCHANGED <<cfgvars, lifevars, mapvars, bgvars, fsvars, histvars,
                   obs_count, crashed,
                   n_updates, n_ticks>>
    /\ UNCHANGED <<pvars, fvars, nvars, ivars, svars, xvars, rvars>>

\* update(), line 193: voxel_map.add_obs(obs); its exception ends update().
UpdAddObs ==
    /\ ~crashed
    /\ u_pc = "l193"
    /\ LET r == AddObs(CurrentMap, u_obs)
       IN  /\ cells' = r.map.cells
           /\ observations' = r.map.observations
           /\ instances' = r.map.instances
           /\ a_res' = r.err
           /\ n_added' = IF r.err = "ok" THEN n_added + 1 ELSE n_added
           /\ maps_seen' = IF r.err = "ok" THEN <<>> ELSE maps_seen
           /\ IF r.err = "ok"
              THEN u_pc' = "l194" /\ UNCHANGED <<u_obs, u_reg, u_count, u_vis>>
              ELSE UpdLeave("raise193")
    /\ a_pre' = CurrentMap
    /\ UNCHANGED <<cfgvars, lifevars, bgvars, fsvars, u_pre, obs_count, crashed, n_updates,
                   n_ticks>>
    /\ UNCHANGED <<pvars, fvars, nvars, ivars, svars, xvars, rvars>>

\* A get_2d_map that consumes the cells it projects.
UpdVisualize_Clears ==
    /\ ~crashed
    /\ u_pc = "l194"
    /\ maps_seen' = IF u_vis THEN Append(maps_seen, MapCall(cells)) ELSE maps_seen
    /\ cells' = IF u_vis THEN {} ELSE cells
    /\ u_pc' = "l199"
    /\ UNCHANGED <<cfgvars, lifevars, observations, instances, bgvars, fsvars,
                   u_obs, u_reg, u_count, u_vis, n_added, a_pre, a_res, u_pre,
                   obs_count, crashed, n_updates, n_ticks>>
    /\ UNCHANGED <<pvars, fvars, nvars, ivars, svars, xvars, rvars>>

\* update(), lines 194-196: with visualize_map, get_2d_map(debug=True).
UpdVisualize ==
    /\ ~crashed
    /\ u_pc = "l194"
    /\ maps_seen' = IF u_vis THEN Append(maps_seen, MapCall(cells)) ELSE maps_seen
    /\ u_pc' = "l199"
    /\ UNCHANGED <<cfgvars, lifevars, mapvars, bgvars, fsvars, u_obs, u_reg,
                   u_count, u_vis, n_added, a_pre, a_res, u_pre, obs_count,
                   crashed, n_updates, n_ticks>>
    /\ UNCHANGED <<pvars, fvars, nvars, ivars, svars, xvars, rvars>>

\* update(), lines 199-200 without chat: nothing is published.
UpdReturn ==
    /\ ~crashed
    /\ u_pc = "l199"
    /\ ~chat
    /\ UpdLeave("ret200")
    /\ UNCHANGED <<cfgvars, lifevars, mapvars, bgvars, fsvars, histvars,
                   obs_count, crashed,
                   n_updates, n_ticks>>
    /\ UNCHANGED <<pvars, fvars, nvars, ivars, svars, xvars, rvars>>

\* f with key k set to v, and f without key k.
Put(f, k, v) == [x \in DOMAIN f \cup {k} |-> IF x = k THEN v ELSE f[x]]

Drop(f, k) == [x \in DOMAIN f \ {k} |-> f[x]]

\* publish_obs, line 39: atomic_write opens a temporary file next to the
\* target; the target is not touched.
PubOpen ==
    /\ ~crashed
    /\ u_pc = "l199"
    /\ chat
    /\ tmpfiles' = Put(tmpfiles, "update", 0)
    /\ u_pc' = "l40"
    /\ UNCHANGED <<cfgvars, lifevars, mapvars, bgvars, histvars, files, u_obs,
                   u_reg, u_count, u_vis, obs_count, crashed,
                   n_updates, n_ticks>>
    /\ UNCHANGED <<pvars, fvars, nvars, ivars, svars, xvars, rvars>>

\* publish_obs, lines 40-66: the record is put together from get_instances(),
\* observations[-1] and get_2d_map().
PubBuild ==
    /\ ~crashed
    /\ u_pc = "l40"
    /\ maps_seen' = Append(maps_seen, MapCall(cells))
    /\ u_pc' = "l68"
    /\ UNCHANGED <<cfgvars, lifevars, mapvars, bgvars, fsvars, u_obs, u_reg,
                   u_count, u_vis, n_added, a_pre, a_res, u_pre, obs_count,
                   crashed, n_updates, n_ticks>>
    /\ UNCHANGED <<pvars, fvars, nvars, ivars, svars, xvars, rvars>>

\* pickle.dump writing to <timestep>.pkl itself, as with a plain open().
PubWrite_InPlace ==
    /\ ~crashed
    /\ u_pc = "l68"
    /\ tmpfiles["update"] < RecordChunks
    /\ tmpfiles' = Put(tmpfiles, "update", tmpfiles["update"] + 1)
    /\ files' = Put(files, u_count, tmpfiles["update"] + 1)
    /\ UNCHANGED <<cfgvars, lifevars, mapvars, updvars, bgvars, histvars,
                   obs_count, crashed, n_updates, n_ticks>>
    /\ UNCHANGED <<pvars, fvars, nvars, ivars, svars, xvars, rvars>>

\* publish_obs, lines 68-89: pickle.dump writes the next part of the record
\* to the file object, which is the temporary file.
PubWrite ==
    /\ ~crashed
    /\ u_pc = "l68"
    /\ tmpfiles["update"] < RecordChunks
    /\ tmpfiles' = Put(tmpfiles, "update", tmpfiles["update"] + 1)
    /\ UNCHANGED <<cfgvars, lifevars, mapvars, updvars, bgvars, histvars,
                   files, obs_count, crashed, n_updates, n_ticks>>
    /\ UNCHANGED <<pvars, fvars, nvars, ivars, svars, xvars, rvars>>

\* publish_obs, end of the with block of line 39: atomic_write moves the
\* temporary file to <timestep>.pkl in one step; as overwrite is not asked
\* for, an existing target makes the move fail and the temporary file is
\* removed.
PubCommit ==
    /\ ~crashed
    /\ u_pc = "l68"
    /\ tmpfiles["update"] = RecordChunks
    /\ tmpfiles' = Drop(tmpfiles, "update")
    /\ IF u_count \in DOMAIN files
       THEN /\ UpdLeave("raise39")
            /\ UNCHANGED files
       ELSE /\ UpdLeave("ret200")
            /\ files' = Put(files, u_count, tmpfiles["update"])
    /\ UNCHANGED <<cfgvars, lifevars, mapvars, bgvars, histvars, obs_count, crashed, n_updates,
                   n_ticks>>
    /\ UNCHANGED <<pvars, fvars, nvars, ivars, svars, xvars, rvars>>

\* publish_obs, lines 40-89: an exception inside the with block (building or
\* writing the record); atomic_write removes the temporary file.
PubFail ==
    /\ ~crashed
    /\ u_pc \in {"l40", "l68"}
    /\ tmpfiles' = Drop(tmpfiles, "update")
    /\ UpdLeave("raise39")
    /\ UNCHANGED <<cfgvars, lifevars, mapvars, bgvars, histvars, files, obs_count, crashed,
                   n_updates, n_ticks>>
    /\ UNCHANGED <<pvars, fvars, nvars, ivars, svars, xvars, rvars>>

\* publish_limited_obs, lines 167-169: the interval fires; get_observation,
\* and the read of "obs_count += 1".
BgTick ==
    /\ ~crashed
    /\ publisher = "running"
    /\ b_pc \in {"idle", "raise178"}
    /\ n_ticks < MaxTicks
    /\ n_ticks' = n_ticks + 1
    /\ b_reg' = obs_count
    /\ b_pc' = "l169"
    /\ UNCHANGED <<cfgvars, lifevars, mapvars, updvars, fsvars, histvars,
                   obs_count, crashed, n_updates>>
    /\ UNCHANGED <<pvars, fvars, nvars, ivars, svars, xvars, rvars>>

\* publish_limited_obs, line 169: the write of "obs_count += 1".
BgStore ==
    /\ ~crashed
    /\ b_pc = "l169"
    /\ obs_count' = b_reg + 1
    /\ b_pc' = "l170"
    /\ UNCHANGED <<cfgvars, lifevars, mapvars, updvars, fsvars, histvars,
                   b_reg, crashed, n_updates, n_ticks>>
    /\ UNCHANGED <<pvars, fvars, nvars, ivars, svars, xvars, rvars>>

\* publish_limited_obs, line 170: atomic_write opens its temporary file.
BgOpen ==
    /\ ~crashed
    /\ b_pc = "l170"
    /\ tmpfiles' = Put(tmpfiles, "publisher", 0)
    /\ b_pc' = "l174"
    /\ UNCHANGED <<cfgvars, lifevars, mapvars, updvars, histvars, files,
                   b_reg, obs_count, crashed, n_updates, n_ticks>>
    /\ UNCHANGED <<pvars, fvars, nvars, ivars, svars, xvars, rvars>>

\* publish_limited_obs, lines 174-181: the record reads self.state, which
\* RobotAgent does not have; the AttributeError leaves the with block before
\* anything is written, and atomic_write removes the temporary file.
BgRaise ==
    /\ ~crashed
    /\ b_pc = "l174"
    /\ tmpfiles' = Drop(tmpfiles, "publisher")
    /\ b_pc' = "raise178"
    /\ UNCHANGED <<cfgvars, lifevars, mapvars, updvars, histvars, files,
                   b_reg, obs_count, crashed, n_updates, n_ticks>>
    /\ UNCHANGED <<pvars, fvars, nvars, ivars, svars, xvars, rvars>>

\* start(), lines 287-289: with chat the publisher is started.
Start ==
    /\ ~crashed
    /\ life = "constructed"
    /\ life' = "started"
    /\ publisher' = IF chat THEN "running" ELSE publisher
    /\ UNCHANGED <<cfgvars, ui_server, mapvars, updvars, bgvars, fsvars,
                   histvars, obs_count, crashed, n_updates, n_ticks>>
    /\ UNCHANGED <<pvars, fvars, nvars, ivars, svars, xvars, rvars>>

\* __del__, lines 161-165, once no update() and no publish_limited_obs() is
\* running (each has returned or raised): the UI server is stopped if it was asked for, then
\* self._publisher.cancel() is called whether or not the attribute exists.
Del ==
    /\ ~crashed
    /\ life \in {"constructed", "started"}
    /\ u_pc \in {"idle"} \cup UpdDone
    /\ b_pc \in {"idle", "raise178"}
    /\ ui_server' = IF start_ui_server THEN FALSE ELSE ui_server
    /\ IF publisher = "none"
       THEN /\ life' = "del_raised"
            /\ UNCHANGED publisher
       ELSE /\ life' = "deleted"
            /\ publisher' = "cancelled"
    /\ UNCHANGED <<cfgvars, mapvars, updvars, bgvars, fsvars, histvars,
                   obs_count, crashed, n_updates, n_ticks>>
    /\ UNCHANGED <<pvars, fvars, nvars, ivars, svars, xvars, rvars>>

\* The process is killed while a snapshot is being written.
Crash ==
    /\ ~crashed
    /\ tmpfiles # <<>>
    /\ crashed' = TRUE
    /\ UNCHANGED <<cfgvars, lifevars, mapvars, updvars, bgvars, fsvars,
                   histvars, obs_count, n_updates, n_ticks>>
    /\ UNCHANGED <<pvars, fvars, nvars, ivars, svars, xvars, rvars>>

\* One agent whose update() calls run with no publisher tick in between.
NextUpdate ==
    \/ Start
    \/ UpdEnter
    \/ UpdStore
    \/ UpdPredict
    \/ UpdPredictRaise
    \/ UpdAddObs
    \/ UpdVisualize
    \/ UpdReturn
    \/ PubOpen
    \/ PubBuild
    \/ PubWrite
    \/ PubCommit
    \/ PubFail

SpecUpdate == InitAgent /\ [][NextUpdate]_vars

\* The agent with its publisher thread, its teardown, and the process being
\* killed: every interleaving of the two threads' steps.
NextAgent ==
    \/ Start
    \/ UpdEnter
    \/ UpdStore
    \/ UpdPredict
    \/ UpdPredictRaise
    \/ UpdAddObs
    \/ UpdVisualize
    \/ UpdReturn
    \/ PubOpen
    \/ PubBuild
    \/ PubWrite
    \/ PubCommit
    \/ PubFail
    \/ BgTick
    \/ BgStore
    \/ BgOpen
    \/ BgRaise
    \/ Del
    \/ Crash

SpecAgent == InitAgent /\ [][NextAgent]_vars

\* ----------------------------------------------------- instance aggregator

\* The category ids the perception model reports.
Categories == {0, 1}

\* The view embeddings, and the encoded goal texts they are scored against.
Embeds == {0, 1}
GoalEmbs == {-1, 1}

\* The configured merge threshold, as the fraction <<numerator, denominator>>.
IouThreshold == <<1, 2>>

\* Axis-aligned bounds: the cells lo..hi.
BoxCells(lo, hi) == lo..hi

\* A per-frame detection: category, derived bounds and embedding.
FrameDetections ==
    {d \in [cat : Categories, lo : 0..MaxBox, hi : 0..MaxBox, emb : Embeds] : d.lo <= d.hi}

\* Spatial overlap of a detection with an instance, as intersection and union sizes.
Overlap(det, ins) ==
    [inter |-> Cardinality(BoxCells(det.lo, det.hi) \cap BoxCells(ins.lo, ins.hi)),
     union |-> Cardinality(BoxCells(det.lo, det.hi) \cup BoxCells(ins.lo, ins.hi))]

\* Overlap a is at least the threshold.
AtLeastThreshold(a) == a.inter * IouThreshold[2] >= IouThreshold[1] * a.union

\* Overlap a is strictly larger than overlap b.
LargerOverlap(a, b) == a.inter * b.union > b.inter * a.union

\* Variant: only an overlap above the threshold merges.
Candidates_Strict(mem, det) ==
    {k \in 1..Len(mem) :
        /\ mem[k].cat = det.cat
        /\ Overlap(det, mem[k]).inter * IouThreshold[2] > IouThreshold[1] * Overlap(det, mem[k]).union}

\* The existing instances the detection may merge into: same category,
\* overlap at least the threshold.
Candidates(mem, det) ==
    {k \in 1..Len(mem) : mem[k].cat = det.cat /\ AtLeastThreshold(Overlap(det, mem[k]))}

\* Variant: among equal overlaps the highest instance id wins.
BestMatch_HighestId(mem, det) ==
    LET cand == Candidates(mem, det) IN
    IF cand = {} THEN 0
    ELSE CHOOSE k \in cand :
            \A m \in cand :
                /\ ~LargerOverlap(Overlap(det, mem[m]), Overlap(det, mem[k]))
                /\ (~LargerOverlap(Overlap(det, mem[k]), Overlap(det, mem[m])) => m <= k)

\* The instance the detection is associated with, 0 for none: maximal
\* overlap, and the lowest instance id among equal overlaps.
BestMatch(mem, det) ==
    LET cand == Candidates(mem, det) IN
    IF cand = {} THEN 0
    ELSE CHOOSE k \in cand :
            \A m \in cand :
                /\ ~LargerOverlap(Overlap(det, mem[m]), Overlap(det, mem[k]))
                /\ (~LargerOverlap(Overlap(det, mem[k]), Overlap(det, mem[m])) => k <= m)

Max(a, b) == IF a >= b THEN a ELSE b

\* A new instance holding the detection as its only view.
NewInstance(det, id) ==
    [id |-> id, cat |-> det.cat, lo |-> det.lo, hi |-> det.hi,
     views |-> <<det.emb>>, cache |-> <<>>]

\* Variant: the cached embedding survives the new view.
Merge_KeepsCache(ins, det) ==
    [ins EXCEPT !.lo = Min(ins.lo, det.lo),
                !.hi = Max(ins.hi, det.hi),
                !.views = Append(ins.views, det.emb)]

\* On association: bounds united, the view appended, the cached embedding
\* invalidated.
Merge(ins, det) ==
    [ins EXCEPT !.lo = Min(ins.lo, det.lo),
                !.hi = Max(ins.hi, det.hi),
                !.views = Append(ins.views, det.emb),
                !.cache = <<>>]

\* Variant: a new instance is put in front of the existing ones.
Associated_NewFirst(mem, det) ==
    LET k == BestMatch(mem, det) IN
    IF k = 0 THEN <<NewInstance(det, Len(mem) + 1)>> \o mem
    ELSE [mem EXCEPT ![k] = Merge(mem[k], det)]

\* The instance set after one detection is associated.
Associated(mem, det) ==
    LET k == BestMatch(mem, det) IN
    IF k = 0 THEN Append(mem, NewInstance(det, Len(mem) + 1))
    ELSE [mem EXCEPT ![k] = Merge(mem[k], det)]

\* associate, one detection of the frame at a time.
Associate ==
    /\ i_dets < MaxDets
    /\ \E det \in FrameDetections :
        /\ insts' = Associated(insts, det)
        /\ i_det' = <<det>>
    /\ i_pre' = insts
    /\ i_dets' = i_dets + 1
    /\ e_read' = <<>>
    /\ c_best' = <<>>
    /\ UNCHANGED <<pvars, fvars, nvars, uvars, svars, xvars, rvars>>

RECURSIVE SumOf(_)
SumOf(views) == IF views = <<>> THEN 0 ELSE views[1] + SumOf(Tail(views))

\* The mean of the view embeddings, as the fraction sum / n.
MeanOf(views) == [sum |-> SumOf(views), n |-> Len(views)]

\* get_image_embedding: the cached value when there is one, the mean of all
\* views otherwise.
GetImageEmbedding(ins) == IF ins.cache # <<>> THEN ins.cache[1] ELSE MeanOf(ins.views)

\* The instances after each one's embedding was read, and so cached.
AfterRead(mem) == [k \in 1..Len(mem) |-> [mem[k] EXCEPT !.cache = <<GetImageEmbedding(mem[k])>>]]

\* The embeddings a read of every instance returns.
Embeddings(mem) == [k \in 1..Len(mem) |-> GetImageEmbedding(mem[k])]

\* publish_obs stacks the embedding of every instance.
ReadEmbeddings ==
    /\ insts # <<>>
    /\ e_read = <<>>
    /\ e_read' = Embeddings(insts)
    /\ insts' = AfterRead(insts)
    /\ UNCHANGED <<i_dets, i_pre, i_det, c_best>>
    /\ UNCHANGED <<pvars, fvars, nvars, uvars, svars, xvars, rvars>>

\* goal_score of embedding a is strictly greater than that of embedding b.
BetterScore(g, a, b) == g * a.sum * b.n > g * b.sum * a.n

\* Variant of the loop: a score equal to the best one also replaces it.
RECURSIVE BestFrom_OrEqual(_, _, _, _)
BestFrom_OrEqual(embs, g, k, best) ==
    IF k > Len(embs) THEN best
    ELSE IF best = 0 \/ ~BetterScore(g, embs[best], embs[k])
         THEN BestFrom_OrEqual(embs, g, k + 1, k)
         ELSE BestFrom_OrEqual(embs, g, k + 1, best)

\* The loop over the instances: `best` is best_instance (0 for None, whose
\* best_score is -Inf), replaced by a strictly greater score only.
RECURSIVE BestFrom(_, _, _, _)
BestFrom(embs, g, k, best) ==
    IF k > Len(embs) THEN best
    ELSE IF best = 0 \/ BetterScore(g, embs[k], embs[best])
         THEN BestFrom(embs, g, k + 1, k)
         ELSE BestFrom(embs, g, k + 1, best)

\* choose_best_goal_instance
ChooseBest ==
    /\ c_best = <<>>
    /\ \E g \in GoalEmbs :
        c_best' = <<[goal |-> g, best |-> BestFrom(Embeddings(insts), g, 1, 0)]>>
    /\ insts' = AfterRead(insts)
    /\ UNCHANGED <<i_dets, i_pre, i_det, e_read>>
    /\ UNCHANGED <<pvars, fvars, nvars, uvars, svars, xvars, rvars>>

NextInst ==
    \/ Associate
    \/ ReadEmbeddings
    \/ ChooseBest

SpecInst == InitPlain /\ [][NextInst]_vars

\* --------------------------------------------------------- frontier sampler

\* The cells of the 2D map.
GridCells == (0..MaxPos) \X (0..1)

\* The cells next to cell c.
Neighbours(c) ==
    {d \in GridCells :
        \/ (d[2] = c[2] /\ (d[1] = c[1] + 1 \/ d[1] = c[1] - 1))
        \/ (d[1] = c[1] /\ (d[2] = c[2] + 1 \/ d[2] = c[2] - 1))}

\* A set of cells grown by one cell in every direction.
Dilate(region) == region \cup UNION {Neighbours(c) : c \in region}

\* Variant: every explored free cell counts as frontier.
FrontierCells_AllFree(explored, obstacles) == explored \ obstacles

\* The frontier: the edge of the unexplored region, where it falls on
\* explored cells without an obstacle.
FrontierCells(explored, obstacles) ==
    (Dilate(GridCells \ explored) \cap explored) \ obstacles

\* An update extends the 2D map by one cell, free or occupied.
Observe ==
    /\ \E c \in GridCells \ s_explored, occupied \in BOOLEAN :
        /\ s_explored' = s_explored \cup {c}
        /\ s_obstacles' = IF occupied THEN s_obstacles \cup {c} ELSE s_obstacles
    /\ s_pose' = <<>>
    /\ UNCHANGED <<pvars, fvars, nvars, uvars, ivars, xvars, rvars>>

\* next(self.space.sample_random_frontier())
SampleRandomFrontier ==
    /\ \E c \in FrontierCells(s_explored, s_obstacles) : s_pose' = <<c>>
    /\ UNCHANGED <<s_explored, s_obstacles>>
    /\ UNCHANGED <<pvars, fvars, nvars, uvars, ivars, xvars, rvars>>

NextSample ==
    \/ Observe
    \/ SampleRandomFrontier

SpecSample == InitPlain /\ [][NextSample]_vars

\* ------------------------------------------------------------ run_exploration

\* Largest explore_iter a caller passes.
MaxExplore == 2

\* Everything of move_to_any_instance and the goal query but the agent's
\* current_state and _object_attempts.
nlocals == <<n_pc, n_matches, n_start, n_start_valid, n_retries, n_mi, n_samples,
             n_goal, n_res, n_calls, n_checks, n_cmds, n_plans,
             flt_in, flt_th, flt_att, flt_out, flt_goal, flt_mem, nhist>>

\* Positions at which a run_exploration call has ended: returned, or raised at
\* the line named.
ExploreRaised == {"raise422", "raise435", "raise449", "raise465"}
ExploreDone == {"ret477"} \cup ExploreRaised

\* One thing an iteration did.
Event(it, ev) == [it |-> it, ev |-> ev]

\* Lines 249-255 of earlier move_to_any_instance calls: some instances have a
\* failed attempt on record when exploration is started.
ExplorePrior ==
    /\ x_pc = "idle"
    /\ x_calls = 0
    /\ object_attempts = <<>>
    /\ \E tried \in SUBSET Instances :
        /\ tried # {}
        /\ object_attempts' = [inst \in tried |-> 1]
    /\ UNCHANGED <<current_state, nlocals>>
    /\ UNCHANGED xvars
    /\ UNCHANGED <<pvars, fvars, uvars, ivars, svars, rvars>>

\* Lines 382-406: the call, its arguments, and the instance memory it finds.
ExploreCall ==
    /\ x_pc = "idle"
    /\ x_calls < MaxNavCalls
    /\ x_calls' = x_calls + 1
    /\ current_state' = "EXPLORE"
    /\ x_iter' \in 0..MaxExplore
    /\ x_random' \in BOOLEAN
    /\ x_task' \in Goals
    /\ x_home' \in BOOLEAN
    /\ x_dry' \in BOOLEAN
    /\ x_mem' \in Memories
    /\ x_i' = 0
    /\ x_res' = <<>>
    /\ x_matches' = <<>>
    /\ x_log' = <<>>
    /\ x_pc' = "l407"
    /\ UNCHANGED <<object_attempts, nlocals>>
    /\ UNCHANGED <<pvars, fvars, uvars, ivars, svars, rvars>>

\* Variant: an invalid start backs up and then goes on with the iteration.
ExploreBegin_GoesOn ==
    /\ x_pc = "l407"
    /\ x_i < x_iter
    /\ x_i' = x_i + 1
    /\ \E start_is_valid \in BOOLEAN :
        /\ x_log' = IF start_is_valid THEN x_log
                    ELSE Append(x_log, Event(x_i', "backup"))
        /\ x_pc' = "l419"
    /\ UNCHANGED <<x_calls, x_iter, x_random, x_task, x_home, x_dry, x_res,
                   x_matches, x_mem>>
    /\ UNCHANGED nvars
    /\ UNCHANGED <<pvars, fvars, uvars, ivars, svars, rvars>>

\* Lines 407-417: the next iteration; an invalid start backs up 0.1 m and
\* continues with the iteration after it.
ExploreBegin ==
    /\ x_pc = "l407"
    /\ x_i < x_iter
    /\ x_i' = x_i + 1
    /\ \E start_is_valid \in BOOLEAN :
        /\ x_log' = IF start_is_valid THEN x_log
                    ELSE Append(x_log, Event(x_i', "backup"))
        /\ x_pc' = IF start_is_valid THEN "l419" ELSE "l407"
    /\ UNCHANGED <<x_calls, x_iter, x_random, x_task, x_home, x_dry, x_res,
                   x_matches, x_mem>>
    /\ UNCHANGED nvars
    /\ UNCHANGED <<pvars, fvars, uvars, ivars, svars, rvars>>

\* Lines 407, 459: the iterations are used up.
ExploreLoopEnd ==
    /\ x_pc = "l407"
    /\ x_i = x_iter
    /\ x_pc' = "l459"
    /\ UNCHANGED <<x_calls, x_iter, x_random, x_task, x_home, x_dry, x_i, x_res,
                   x_matches, x_mem, x_log>>
    /\ UNCHANGED nvars
    /\ UNCHANGED <<pvars, fvars, uvars, ivars, svars, rvars>>

\* Lines 420-421: with random_goals a frontier pose is drawn; res is not
\* assigned.
ExploreSample ==
    /\ x_pc = "l419"
    /\ x_random
    /\ x_log' = Append(x_log, Event(x_i, "sample"))
    /\ x_pc' = "l435"
    /\ UNCHANGED <<x_calls, x_iter, x_random, x_task, x_home, x_dry, x_i, x_res,
                   x_matches, x_mem>>
    /\ UNCHANGED nvars
    /\ UNCHANGED <<pvars, fvars, uvars, ivars, svars, rvars>>

\* Lines 422-430: res = plan_to_frontier(...), or the planner's exception
\* leaves the call.
ExploreFrontier ==
    /\ x_pc = "l419"
    /\ ~x_random
    /\ x_log' = Append(x_log, Event(x_i, "plan"))
    /\ \E out \in PlanOutcomes :
        /\ x_res' = IF out = "raised" THEN x_res
                    ELSE <<[success |-> (out = "success"), it |-> x_i]>>
        /\ x_pc' = IF out = "raised" THEN "raise422" ELSE "l435"
    /\ UNCHANGED <<x_calls, x_iter, x_random, x_task, x_home, x_dry, x_i,
                   x_matches, x_mem>>
    /\ UNCHANGED nvars
    /\ UNCHANGED <<pvars, fvars, uvars, ivars, svars, rvars>>

\* Lines 435-446: res.success is read, which raises UnboundLocalError while
\* res is unbound; a successful plan is executed unless dry_run.
ExploreInspect ==
    /\ x_pc = "l435"
    /\ x_pc' = IF x_res = <<>> THEN "raise435" ELSE "l449"
    /\ x_log' = IF x_res # <<>> /\ x_res[1].success /\ ~x_dry
                THEN x_log \o <<Event(x_i, "inspect"), Event(x_i, "exec")>>
                ELSE Append(x_log, Event(x_i, "inspect"))
    /\ UNCHANGED <<x_calls, x_iter, x_random, x_task, x_home, x_dry, x_i, x_res,
                   x_matches, x_mem>>
    /\ UNCHANGED nvars
    /\ UNCHANGED <<pvars, fvars, uvars, ivars, svars, rvars>>

\* Line 449: self.update(): the frame may add an instance to the memory, or
\* the call raises (line 190) and the exception leaves run_exploration.
ExploreUpdate ==
    /\ x_pc = "l449"
    /\ x_log' = Append(x_log, Event(x_i, "update"))
    /\ \/ /\ x_pc' = "raise449"
          /\ x_mem' = x_mem
       \/ /\ x_pc' = "l453"
          /\ \/ x_mem' = x_mem
             \/ /\ Len(x_mem) <= MaxInst
                /\ \E name \in ClassNames : x_mem' = Append(x_mem, name)
    /\ UNCHANGED <<x_calls, x_iter, x_random, x_task, x_home, x_dry, x_i, x_res,
                   x_matches>>
    /\ UNCHANGED nvars
    /\ UNCHANGED <<pvars, fvars, uvars, ivars, svars, rvars>>

\* get_found_instances_by_class(task_goal): threshold 0.
FoundInstances(mem, task, attempts) ==
    IF task = None THEN <<>>
    ELSE FilterMatches(MatchingInstances(mem, task, 1), attempts, 0)

\* Lines 453-457: with a task goal the matches are looked up, and a match
\* ends the exploration.
ExploreCheck ==
    /\ x_pc = "l453"
    /\ x_matches' = IF x_task # None
                    THEN FoundInstances(x_mem, x_task, object_attempts)
                    ELSE x_matches
    /\ x_pc' = IF x_task # None /\ Len(x_matches') > 0 THEN "l459" ELSE "l407"
    /\ UNCHANGED <<x_calls, x_iter, x_random, x_task, x_home, x_dry, x_i, x_res,
                   x_mem, x_log>>
    /\ UNCHANGED nvars
    /\ UNCHANGED <<pvars, fvars, uvars, ivars, svars, rvars>>

\* Lines 459-477: go home if asked to, and return matches.
ExploreFinish ==
    /\ x_pc = "l459"
    /\ IF x_home
       THEN /\ current_state' = "NAV_TO_HOME"
            /\ \E out \in PlanOutcomes :
                /\ x_res' = IF out = "raised" THEN x_res
                            ELSE <<[success |-> (out = "success"), it |-> 0]>>
                /\ x_pc' = IF out = "raised" THEN "raise465" ELSE "ret477"
                /\ x_log' = IF out = "success" /\ ~x_dry
                            THEN x_log \o <<Event(0, "plan"), Event(0, "exec")>>
                            ELSE Append(x_log, Event(0, "plan"))
       ELSE /\ x_pc' = "ret477"
            /\ UNCHANGED <<current_state, x_res, x_log>>
    /\ UNCHANGED <<x_calls, x_iter, x_random, x_task, x_home, x_dry, x_i,
                   x_matches, x_mem>>
    /\ UNCHANGED <<object_attempts, nlocals>>
    /\ UNCHANGED <<pvars, fvars, uvars, ivars, svars, rvars>>

\* The call has ended: its frame is gone.
ExploreLeave ==
    /\ x_pc \in ExploreDone
    /\ x_pc' = "idle"
    /\ x_iter' = 0
    /\ x_random' = FALSE
    /\ x_task' = None
    /\ x_home' = FALSE
    /\ x_dry' = FALSE
    /\ x_i' = 0
    /\ x_res' = <<>>
    /\ x_matches' = <<>>
    /\ x_log' = <<>>
    /\ UNCHANGED <<x_calls, x_mem>>
    /\ UNCHANGED nvars
    /\ UNCHANGED <<pvars, fvars, uvars, ivars, svars, rvars>>

NextExplore ==
    \/ ExplorePrior
    \/ ExploreCall
    \/ ExploreBegin
    \/ ExploreLoopEnd
    \/ ExploreSample
    \/ ExploreFrontier
    \/ ExploreInspect
    \/ ExploreUpdate
    \/ ExploreCheck
    \/ ExploreFinish
    \/ ExploreLeave

SpecExplore == InitPlain /\ [][NextExplore]_vars

\* ------------------------------------------------------------ LocalHelloRobot

\* Calls a user of the robot makes, and joint-state messages it receives.
MaxCmds == 3
MaxMsgs == 3

\* Largest joint position a message reports.
MaxJointPos == 2

ControlMode == {"IDLE", "VELOCITY", "NAVIGATION", "MANIPULATION"}

ROS_LIFT_JOINT == "joint_lift"
ROS_ARM_JOINTS_ACTUAL == <<"joint_arm_l0", "joint_arm_l1", "joint_arm_l2", "joint_arm_l3">>

ArmJoints == {ROS_ARM_JOINTS_ACTUAL[k] : k \in 1..Len(ROS_ARM_JOINTS_ACTUAL)}

\* The mode-restricted commands that publish something.
Commands ==
    {"set_velocity", "navigate_to", "set_arm_joint_positions", "open_gripper",
     "close_gripper", "set_camera_pan_tilt"}

\* The valid_modes given to limit_control_mode for each command.
ValidModes(cmd) ==
    CASE cmd = "set_velocity" -> {"VELOCITY"}
      [] cmd = "navigate_to" -> {"NAVIGATION"}
      [] cmd = "set_arm_joint_positions" -> {"MANIPULATION"}
      [] OTHER -> {"VELOCITY", "NAVIGATION", "MANIPULATION"}

\* The ways a command is called: navigate_to with an absolute goal, a
\* relative goal, or avoid_obstacles.
CallArgs(cmd) ==
    IF cmd = "navigate_to" THEN {"absolute", "relative", "avoid_obstacles"} ELSE {"-"}

\* What a call does and how it ends.
Outcome(sends, out) == [sends |-> sends, out |-> out]

\* The decorated functions: navigate_to raises NotImplementedError for
\* avoid_obstacles (line 298) and, for a relative goal, fails in
\* get_base_state (line 199) before anything is published; the others publish
\* a message or send a trajectory goal.
Body(cmd, arg) ==
    CASE cmd = "navigate_to" /\ arg = "avoid_obstacles" -> Outcome(FALSE, "raise298")
      [] cmd = "navigate_to" /\ arg = "relative" -> Outcome(FALSE, "raise199")
      [] cmd = "set_arm_joint_positions" -> Outcome(TRUE, "True")
      [] OTHER -> Outcome(TRUE, "None")

\* Variant: the decorator calls the function whatever the mode.
Wrapper_Ungated(cmd, arg, mode) == Body(cmd, arg)

\* limit_control_mode's wrapper: in a valid mode the function is called; in any
\* other, the second logwarn reads self._control_mode, which is never
\* assigned, and the AttributeError leaves the call before "return None".
Wrapper(cmd, arg, mode) ==
    IF mode \in ValidModes(cmd)
    THEN Body(cmd, arg)
    ELSE Outcome(FALSE, "raise68")

\* A call of a mode-restricted command.
Command ==
    /\ r_ncalls < MaxCmds
    /\ r_ncalls' = r_ncalls + 1
    /\ \E cmd \in Commands :
        \E arg \in CallArgs(cmd) :
            LET res == Wrapper(cmd, arg, base_control_mode)
            IN  /\ r_sent' = IF res.sends
                             THEN r_sent \cup {[cmd |-> cmd, mode |-> base_control_mode]}
                             ELSE r_sent
                /\ r_last' = <<[cmd |-> cmd, mode |-> base_control_mode, out |-> res.out]>>
    /\ UNCHANGED <<base_control_mode, bsae_control_mode, q_arm, q_lift, r_nmsgs,
                   r_arm_msg>>
    /\ UNCHANGED <<pvars, fvars, nvars, uvars, ivars, svars, xvars>>

\* switch_to_velocity_mode
SwitchToVelocityMode ==
    /\ r_ncalls < MaxCmds
    /\ r_ncalls' = r_ncalls + 1
    /\ base_control_mode' = "VELOCITY"
    /\ r_last' = <<[cmd |-> "switch_to_velocity_mode", mode |-> base_control_mode,
                    out |-> "returned"]>>
    /\ UNCHANGED <<bsae_control_mode, q_arm, q_lift, r_sent, r_nmsgs, r_arm_msg>>
    /\ UNCHANGED <<pvars, fvars, nvars, uvars, ivars, svars, xvars>>

\* switch_to_navigation_mode
SwitchToNavigationMode ==
    /\ r_ncalls < MaxCmds
    /\ r_ncalls' = r_ncalls + 1
    /\ base_control_mode' = "NAVIGATION"
    /\ r_last' = <<[cmd |-> "switch_to_navigation_mode", mode |-> base_control_mode,
                    out |-> "returned"]>>
    /\ UNCHANGED <<bsae_control_mode, q_arm, q_lift, r_sent, r_nmsgs, r_arm_msg>>
    /\ UNCHANGED <<pvars, fvars, nvars, uvars, ivars, svars, xvars>>

\* switch_to_manipulation_mode: line 266 assigns bsae_control_mode.
SwitchToManipulationMode ==
    /\ r_ncalls < MaxCmds
    /\ r_ncalls' = r_ncalls + 1
    /\ bsae_control_mode' = "MANIPULATION"
    /\ r_last' = <<[cmd |-> "switch_to_manipulation_mode", mode |-> base_control_mode,
                    out |-> "returned"]>>
    /\ UNCHANGED <<base_control_mode, q_arm, q_lift, r_sent, r_nmsgs, r_arm_msg>>
    /\ UNCHANGED <<pvars, fvars, nvars, uvars, ivars, svars, xvars>>

\* The joint-state messages: a position for each joint named.
JointMsgs ==
    UNION {[names -> 1..MaxJointPos] : names \in SUBSET (ArmJoints \cup {ROS_LIFT_JOINT})}

\* The positions of the arm segments named in msg, from segment k on, added up.
RECURSIVE ArmSum(_, _)
ArmSum(msg, k) ==
    IF k > Len(ROS_ARM_JOINTS_ACTUAL) THEN 0
    ELSE (IF ROS_ARM_JOINTS_ACTUAL[k] \in DOMAIN msg THEN msg[ROS_ARM_JOINTS_ACTUAL[k]] ELSE 0)
            + ArmSum(msg, k + 1)

\* _joint_state_callback: q_arm is set to 0 when the first arm segment is
\* named, then every arm segment named is added to it.
JointStateCallback ==
    /\ r_nmsgs < MaxMsgs
    /\ r_nmsgs' = r_nmsgs + 1
    /\ \E msg \in JointMsgs :
        /\ q_arm' = (IF ROS_ARM_JOINTS_ACTUAL[1] \in DOMAIN msg THEN 0 ELSE q_arm)
                        + ArmSum(msg, 1)
        /\ q_lift' = IF ROS_LIFT_JOINT \in DOMAIN msg THEN msg[ROS_LIFT_JOINT] ELSE q_lift
        /\ r_arm_msg' = IF DOMAIN msg \cap ArmJoints # {}
                        THEN <<ArmSum(msg, 1)>>
                        ELSE r_arm_msg
    /\ UNCHANGED <<base_control_mode, bsae_control_mode, r_sent, r_last, r_ncalls>>
    /\ UNCHANGED <<pvars, fvars, nvars, uvars, ivars, svars, xvars>>

\* The calls a user of the robot makes.
NextRobot ==
    \/ Command
    \/ SwitchToVelocityMode
    \/ SwitchToNavigationMode
    \/ SwitchToManipulationMode

SpecRobot == InitPlain /\ [][NextRobot]_vars

\* The joint-state subscriber.
NextJoints == JointStateCallback

SpecJoints == InitPlain /\ [][NextJoints]_vars

\* ------------------------------------------------------------------ claims

Last(s) == s[Len(s)]

States(nodes) == [k \in 1..Len(nodes) |-> nodes[k].state]

Ids(nodes) == {nodes[k].id : k \in 1..Len(nodes)}

\* <<a, b>> is a parent-child edge of the tree `nodes`, as a pair of states.
IsEdge(nodes, a, b) ==
    \E k \in 1..Len(nodes) :
        /\ nodes[k].state = b
        /\ nodes[k].parent \in Ids(nodes)
        /\ nodes[NodeById(nodes, nodes[k].parent)].state = a

\* Every pose strictly between a and b, and b itself.
Between(a, b) == {p \in Poses : (a < p /\ p <= b) \/ (b <= p /\ p < a)}

\* The tree `nodes` is rooted at `root`: its only parentless node holds `root`
\* and every other node's parent is a node of the same tree.
RootedAt(nodes, root) ==
    /\ \E k \in 1..Len(nodes) : nodes[k].parent = 0 /\ nodes[k].state = root
    /\ \A k, m \in 1..Len(nodes) : nodes[k].parent = 0 /\ nodes[m].parent = 0 => k = m
    /\ \A k \in 1..Len(nodes) : nodes[k].parent # 0 => nodes[k].parent \in Ids(nodes)

\* C1: whenever plan returns success, every pose of the returned path
\* satisfies is_valid.
C1_PathValid ==
    pc = "ret59" =>
        \A k \in 1..Len(result.trajectory) : result.trajectory[k] \in valid

\* C2: a plan call with valid start and valid goal ends by returning a result
\* value (success, or the failure after max_iterations iterations), never by
\* raising, and within max_iterations iterations.
C2_ReturnsResult ==
    /\ i <= MaxIter
    /\ (pc \in Returned \cup Raised /\ start \in valid /\ goal \in valid)
          => pc \in {"ret59", "ret68"}

C4_CallScoped ==
    pc = "l57" =>
        /\ States(nodes_fwd) = <<start>>
        /\ States(nodes_rev) = <<goal>>

\* C5: a successful plan's path begins with start, ends with goal, and every
\* consecutive pair of its poses is a parent-child edge of one of the trees.
C5_PathShape ==
    pc = "ret59" =>
        LET t == result.trajectory
        IN  /\ Len(t) >= 1
            /\ t[1] = start
            /\ Last(t) = goal
            /\ \A k \in 1..(Len(t) - 1) :
                  \/ IsEdge(nodes_fwd, t[k], t[k + 1])
                  \/ IsEdge(nodes_rev, t[k + 1], t[k])

\* C6: during a plan call each tree is a valid rooted tree (forward rooted at
\* start, reverse rooted at goal) and no node belongs to both trees.
C6_RootedTrees ==
    pc \in {"l57", "l61"} =>
        /\ RootedAt(nodes_fwd, start)
        /\ RootedAt(nodes_rev, goal)
        /\ Ids(nodes_fwd) \cap Ids(nodes_rev) = {}

\* C7: no tunnelling: every node of either tree is valid, and every tree edge
\* is at most step_size long and crosses only valid poses.
C7_NoTunnelling ==
    pc \in InCall =>
        \A t \in {nodes_fwd, nodes_rev} :
            \A k \in 1..Len(t) :
                /\ t[k].state \in valid
                /\ t[k].parent \in Ids(t) =>
                      LET a == t[NodeById(t, t[k].parent)].state
                      IN  /\ Dist(a, t[k].state) <= StepSize
                          /\ Between(a, t[k].state) \subseteq valid

\* C8: with start = goal, both valid, plan returns success with a path of
\* length 1 without executing any iteration of the loop.
C8_TrivialPlan ==
    (pc \in Returned \cup Raised /\ start = goal /\ start \in valid) =>
        /\ pc = "ret59"
        /\ Len(result.trajectory) = 1
        /\ i = 0

\* C9: every iteration of the loop extends one tree, and the tree extended in
\* iteration k+1 is the other one than in iteration k.
C9_Alternates ==
    pc = "l61" =>
        /\ Len(extended) = 1 + i
        /\ \A k \in 2..(Len(extended) - 1) : extended[k + 1] # extended[k]

\* C10: plan_to_frontier draws at most max_attempts candidates, plans only for
\* candidates that passed is_valid, returns the first successful plan result,
\* and otherwise ends by returning the failure after max_attempts candidates:
\* it always ends by returning.
C10_FrontierReturns ==
    /\ f_tries <= TryToPlanIter
    /\ \A k \in 1..Len(f_planned) : f_planned[k] \in valid
    /\ f_pc = "ret_success" => result.success /\ goal = Last(f_planned)
    /\ f_pc = "ret_none" => f_tries = TryToPlanIter
    /\ f_pc # "raised"

\* C11: a call of move_to_any_instance always ends by returning True or False;
\* it never ends by raising because the start pose stayed invalid or because
\* a plan attempt failed.
C11_NavReturns ==
    n_pc \in NavDone => n_pc \in {"ret272", "ret274"}

\* C12: the back-up loop issues only the fixed backward command, at most
\* StartRetries times, re-checking validity after each; every check before
\* the last one failed (the loop stops at the first valid start), the
\* invalid-start failure is raised only after StartRetries back-ups with the
\* last check still failing, and the planner is only called with a start
\* whose last validity check passed.
C12_BoundedBackUp ==
    /\ Len(n_cmds) <= StartRetries
    /\ \A k \in 1..Len(n_cmds) : n_cmds[k] = BackUp
    /\ n_pc # "idle" =>
        /\ Len(n_checks) = Len(n_cmds) + 1
        /\ \A k \in 1..Len(n_cmds) : ~n_checks[k]
        /\ n_start_valid = Last(n_checks)
    /\ n_pc = "raise220" => Len(n_cmds) = StartRetries /\ ~Last(n_checks)
    /\ n_pc \notin {"idle", "l209", "raise220"} => Last(n_checks)
    /\ n_plans \subseteq {TRUE}

\* C12 witness: the planner was called after the start became valid on the
\* check that followed the last allowed back-up.
C12_Witness ==
    /\ Len(n_cmds) = StartRetries
    /\ n_plans = {TRUE}

\* The attempt count the original statement of C13 gives an instance.
C13_Count(inst) ==
    IF inst \in DOMAIN flt_att THEN flt_att[inst] ELSE 0

C13_Below(inst) ==
    C13_Count(inst) < flt_th

C13_Untried(inst) ==
    inst \notin DOMAIN flt_att \/ flt_att[inst] < flt_th

\* C13 (as stated): filter_matches returns, in input order, exactly the
\* matches whose attempt count is below the threshold, an instance without a
\* recorded count counting as attempted 0 times.
C13_CountBelowThreshold ==
    flt_out = SelectSeq(flt_in, C13_Below)

\* C13 (amended): filter_matches returns, in input order, exactly the matches
\* that have no recorded attempt count or a recorded count below the
\* threshold; a match with a recorded count of at least the threshold is
\* never returned, and a match without a recorded count is always returned,
\* also for threshold 0.
C13_FilterKeepsUntried ==
    /\ flt_out = SelectSeq(flt_in, C13_Untried)
    /\ \A k \in 1..Len(flt_in) :
        /\ (flt_in[k] \in DOMAIN flt_att /\ flt_att[flt_in[k]] >= flt_th)
            => \A j \in 1..Len(flt_out) : flt_out[j] # flt_in[k]
        /\ flt_in[k] \notin DOMAIN flt_att
            => \E j \in 1..Len(flt_out) : flt_out[j] = flt_in[k]

\* C13 witness: a filter call with threshold 0 on matches of which one has a
\* recorded count and one has none.
C13_Witness ==
    /\ flt_th = 0
    /\ \E k \in 1..Len(flt_in) : flt_in[k] \in DOMAIN flt_att
    /\ \E k \in 1..Len(flt_in) : flt_in[k] \notin DOMAIN flt_att
    /\ Len(flt_out) = 1

\* C14: every snapshot file that exists under its name <timestep>.pkl holds a
\* complete record, whatever point a publish failed at or the process was
\* killed at: a timestep's file is absent or complete, never partial.
C14_SnapshotsAtomic ==
    \A t \in DOMAIN files : files[t] = RecordChunks

\* C14 witness: the process was killed while publish_obs had written part of
\* the record, and the timestep has no file.
C14_Witness ==
    /\ crashed
    /\ "update" \in DOMAIN tmpfiles
    /\ tmpfiles["update"] \in 1..(RecordChunks - 1)
    /\ u_count \notin DOMAIN files

\* C15: no step of the background publish_limited_obs writes a variable that
\* update() reads or writes (the counter obs_count, the voxel map).
C15_PublisherReadOnly ==
    [][b_pc' # b_pc => UNCHANGED <<obs_count, cells, observations, instances>>]_vars

\* C16: the publisher exists exactly when chat is enabled, is running after
\* start() exactly when chat is enabled, and __del__ always completes, leaving
\* no publisher running, under every configuration.
C16_PublisherLifecycle ==
    /\ (publisher # "none") <=> chat
    /\ life = "started" => (publisher = "running" <=> chat)
    /\ life # "del_raised"
    /\ life = "deleted" => publisher \in {"none", "cancelled"}

\* C17: an update() that ended because the perception call raised has left
\* the cells, the history and the instance set as they were when it was
\* entered, and has published no snapshot file.
C17_FrameDropped ==
    u_pc = "raise190" => CurrentMap = u_pre.map /\ files = u_pre.files

\* C17 witness: the perception call failed in an update() that followed one
\* which had added its frame and published its snapshot.
C17_Witness ==
    /\ u_pc = "raise190"
    /\ observations # <<>>
    /\ files # <<>>

\* C18: a frame with inconsistent shapes makes add_obs fail with
\* InvalidObservationError and leaves cells, history and instances unchanged,
\* and never gets past add_obs; a successful add_obs appends exactly its frame
\* to the history and keeps the earlier entries; the history length is the
\* number of successful calls.
C18_AddObsValidates ==
    /\ Len(observations) = n_added
    /\ a_res = "InvalidObservationError" => CurrentMap = a_pre
    /\ u_pc = "raise193" => a_res = "InvalidObservationError"
    /\ a_res = "ok" =>
        /\ Len(observations) = Len(a_pre.observations) + 1
        /\ SubSeq(observations, 1, Len(a_pre.observations)) = a_pre.observations
    /\ u_pc \in {"l194", "l199", "l40", "l68"} =>
        /\ u_obs.shape_ok
        /\ a_res = "ok"
        /\ Last(observations) = u_obs.id

\* C18 witness: add_obs rejected an ill-shaped frame after an earlier frame
\* had been added.
C18_Witness ==
    /\ u_pc = "raise193"
    /\ n_added = 1

C20_MapMonotonic ==
    [][/\ cells \subseteq cells'
       /\ Get2dMap(cells).explored \subseteq Get2dMap(cells').explored
       /\ Cardinality(Get2dMap(cells).explored)
            <= Cardinality(Get2dMap(cells').explored)]_vars

\* C20 witness: two frames were added and each populated a cell of its own.
C20_Witness ==
    /\ n_added = 2
    /\ Cardinality(cells) = 2

\* The failure count of an instance in a counter table, 0 without an entry.
Attempts(table, inst) == IF inst \in DOMAIN table THEN table[inst] ELSE 0

\* C29: during and after a move_to_any_instance call the failure counter of
\* an instance is its value at entry plus 1 if every goal sampled near the
\* instance in this call was invalid or did not plan, and its value at entry
\* otherwise (the instance planned to, the instances after it): no counter is
\* ever decreased or reset.
C29_CountsFailures ==
    n_pc # "idle" =>
        \A inst \in Instances :
            Attempts(object_attempts, inst) =
                Attempts(n_entry, inst) + (IF inst \in n_unreached THEN 1 ELSE 0)

\* C30: the instances are tried in the caller's order, the planner gets only
\* goals that passed is_valid, the first successful plan ends the search, and
\* the call ends by returning True after executing exactly that plan's
\* trajectory once if some plan succeeded, and by returning False with nothing
\* executed otherwise.
C30_FirstSuccessWins ==
    /\ n_tried = SubSeq(n_matches, 1, Len(n_tried))
    /\ n_goals \subseteq valid
    /\ n_won # <<>> =>
        /\ n_pc \in {"l259", "ret272"}
        /\ Last(n_tried) = n_won[1].inst
    /\ n_pc \notin NavDone => n_exec = <<>>
    /\ n_pc \in NavDone =>
        IF n_won # <<>>
        THEN n_pc = "ret272" /\ n_exec = n_won
        ELSE n_pc = "ret274" /\ n_exec = <<>>

\* Whether the instance of index `inst` in the queried memory has the goal's
\* class name, letter case aside, and passes the attempt filter.
C27_Found(inst) ==
    /\ Lower(flt_mem[inst + 1]) = Lower(flt_goal)
    /\ C13_Untried(inst)

Evidence(ins) == [id |-> ins.id, cat |-> ins.cat, lo |-> ins.lo, hi |-> ins.hi, views |-> ins.views]

\* Intersection over union of the detection with instance k is at least num/den.
IouAtLeast(det, ins, num, den) ==
    Cardinality((det.lo..det.hi) \cap (ins.lo..ins.hi)) * den
        >= num * Cardinality((det.lo..det.hi) \cup (ins.lo..ins.hi))

\* The instances of i_pre the last detection can merge into.
C21_Mergeable ==
    {k \in 1..Len(i_pre) :
        i_pre[k].cat = i_det[1].cat /\ IouAtLeast(i_det[1], i_pre[k], 1, 2)}

\* Instance k took the last detection as a new view, all others are as before.
C21_MergedInto(k) ==
    /\ Len(insts) = Len(i_pre)
    /\ insts[k].views = Append(i_pre[k].views, i_det[1].emb)
    /\ insts[k].id = i_pre[k].id
    /\ insts[k].cat = i_pre[k].cat
    /\ \A m \in 1..Len(i_pre) : m # k => Evidence(insts[m]) = Evidence(i_pre[m])

\* C21: a detection is associated with an existing instance of its own
\* category whose overlap is maximal and at least the threshold (an overlap
\* equal to the threshold merges); when no instance of its category reaches
\* the threshold, exactly one new instance is created and no existing one
\* changes.
C21_MergeRule ==
    i_det # <<>> =>
        IF C21_Mergeable = {}
        THEN /\ Len(insts) = Len(i_pre) + 1
             /\ \A m \in 1..Len(i_pre) : Evidence(insts[m]) = Evidence(i_pre[m])
             /\ insts[Len(insts)].cat = i_det[1].cat
             /\ insts[Len(insts)].views = <<i_det[1].emb>>
        ELSE \E k \in C21_Mergeable :
                /\ C21_MergedInto(k)
                /\ \A m \in C21_Mergeable :
                    \A num \in 0..(MaxBox + 1), den \in 1..(MaxBox + 1) :
                        IouAtLeast(i_det[1], i_pre[m], num, den)
                            => IouAtLeast(i_det[1], i_pre[k], num, den)

\* A detection merged at an overlap of exactly the threshold, while an
\* instance of another category overlapped it as well.
C21_Witness ==
    /\ i_det # <<>>
    /\ \E k \in C21_Mergeable :
        /\ C21_MergedInto(k)
        /\ ~IouAtLeast(i_det[1], i_pre[k], 2, 3)
    /\ \E m \in 1..Len(i_pre) :
        i_pre[m].cat # i_det[1].cat /\ IouAtLeast(i_det[1], i_pre[m], 1, 2)

\* The mergeable instances whose overlap with the last detection is maximal.
C22_Tied ==
    {k \in C21_Mergeable :
        \A m \in C21_Mergeable :
            \A num \in 0..(MaxBox + 1), den \in 1..(MaxBox + 1) :
                IouAtLeast(i_det[1], i_pre[m], num, den)
                    => IouAtLeast(i_det[1], i_pre[k], num, den)}

\* C22: when several instances share the maximal overlap, the detection is
\* merged into the one with the lowest instance id.
C22_LowestIdWins ==
    i_det # <<>> =>
        \A k \in C22_Tied :
            Len(insts[k].views) > Len(i_pre[k].views)
                => \A m \in C22_Tied : i_pre[k].id <= i_pre[m].id

\* Two instances tied at the maximal overlap and the older one took the view.
C22_Witness ==
    /\ i_det # <<>>
    /\ Cardinality(C22_Tied) >= 2
    /\ \E k \in C22_Tied :
        /\ Len(insts[k].views) > Len(i_pre[k].views)
        /\ \A m \in C22_Tied : i_pre[k].id <= i_pre[m].id

\* Sequence s is a prefix of sequence t.
IsPrefix(s, t) == Len(s) <= Len(t) /\ SubSeq(t, 1, Len(s)) = s

\* C24: no step removes or splits an instance: the number of instances never
\* decreases, the instance at every index of get_instances() stays the same
\* instance, and its view sequence only grows by appending.
C24_IdentityMonotonic ==
    [][/\ Len(insts') >= Len(insts)
       /\ \A k \in 1..Len(insts) :
            /\ insts'[k].id = insts[k].id
            /\ insts'[k].cat = insts[k].cat
            /\ IsPrefix(insts[k].views, insts'[k].views)]_vars

\* The last detection created a second instance behind one that had merged a
\* view before.
C24_Witness ==
    /\ i_det # <<>>
    /\ Len(i_pre) >= 1
    /\ Len(insts) = Len(i_pre) + 1
    /\ \E k \in 1..Len(i_pre) : Len(insts[k].views) >= 2

\* C25: the embedding a read returns is the mean of all the views the
\* instance holds at the time of the read.
C25_EmbeddingFresh ==
    e_read # <<>> =>
        /\ Len(e_read) = Len(insts)
        /\ \A k \in 1..Len(insts) :
            /\ e_read[k].n = Len(insts[k].views)
            /\ e_read[k].sum = SumOf(insts[k].views)

\* An instance whose embedding was cached took a view that changes the mean,
\* and was read again.
C25_Witness ==
    /\ e_read # <<>>
    /\ i_det # <<>>
    /\ \E k \in 1..Len(i_pre) :
        /\ i_pre[k].cache # <<>>
        /\ Len(insts[k].views) = Len(i_pre[k].views) + 1
        /\ e_read[k] # i_pre[k].cache[1]
        /\ e_read[k].sum * i_pre[k].cache[1].n # i_pre[k].cache[1].sum * e_read[k].n

\* Similarity of instance k's image embedding with goal g, times the number
\* of its views, both positive.
C28_Sum(g, k) == g * SumOf(insts[k].views)
C28_N(k) == Len(insts[k].views)

\* C28: choose_best_goal_instance returns an instance of maximal similarity
\* with the goal, the earliest created among those of equal maximal
\* similarity, and None when the memory is empty.
C28_BestIsMaximal ==
    c_best # <<>> =>
        LET g == c_best[1].goal
            best == c_best[1].best
        IN  IF insts = <<>> THEN best = 0
            ELSE /\ best \in 1..Len(insts)
                 /\ \A m \in 1..Len(insts) :
                        C28_Sum(g, m) * C28_N(best) <= C28_Sum(g, best) * C28_N(m)
                 /\ \A m \in 1..(best - 1) :
                        C28_Sum(g, m) * C28_N(best) < C28_Sum(g, best) * C28_N(m)

\* Two instances of equal maximal similarity, the older one returned, a less
\* similar one before them.
C28_Witness ==
    /\ c_best # <<>>
    /\ Len(insts) >= 3
    /\ c_best[1].best = 2
    /\ C28_Sum(c_best[1].goal, 3) * C28_N(2) = C28_Sum(c_best[1].goal, 2) * C28_N(3)

C31_NavTerminates ==
    /\ [](n_planned <= MaxSamples)
    /\ (n_pc # "idle") ~> (n_pc \in NavDone)

\* A call has ended after two matches, the last of which took a planner call
\* for every one of its candidates.
C31_Witness ==
    /\ n_pc = "ret274"
    /\ Len(n_tried) = 2
    /\ n_planned = MaxSamples

\* The events of kind ev in the log of the running call.
Logged(ev) == {k \in 1..Len(x_log) : x_log[k].ev = ev}

\* C32: run_exploration begins at most explore_iter iterations; an iteration
\* whose start pose is invalid backs up exactly once and does nothing else (no
\* goal sampling, planning, execution or map update), so that a run makes at
\* most explore_iter corrective maneuvers.
C32_BackUpOnly ==
    /\ x_i <= x_iter
    /\ \A k \in 1..Len(x_log) : x_log[k].it <= x_iter
    /\ \A k \in Logged("backup") :
        \A m \in 1..Len(x_log) : x_log[m].it = x_log[k].it => m = k
    /\ Cardinality(Logged("backup")) <= x_iter

\* A run of MaxExplore iterations has returned, having backed up in one
\* iteration and planned in another.
C32_Witness ==
    /\ x_pc = "ret477"
    /\ x_iter = MaxExplore
    /\ Logged("backup") # {}
    /\ \E k \in Logged("plan") : x_log[k].it > 0

\* C33: when res.success is inspected, res holds a plan result computed in
\* the same iteration, whichever way the goal was chosen, and a trajectory is
\* executed in an iteration only after a plan was computed in it.
C33_ResultInspected ==
    /\ x_pc = "l435" => x_res # <<>> /\ x_res[1].it = x_i
    /\ x_pc # "raise435"
    /\ \A k \in Logged("exec") :
        \E m \in 1..(k - 1) : x_log[m] = Event(x_log[k].it, "plan")

\* Some update of the running call has returned.
C34_Updated ==
    \E k \in Logged("update") : k < Len(x_log) \/ x_pc # "raise449"

\* C34: run_exploration goes on exploring only while no update has left an
\* unfiltered instance of the task goal's class in the memory; it ends by
\* returning, a non-empty list only with a task goal whose instances the last
\* update left in the memory, and the empty list after all its iterations
\* when there is no task goal.
C34_StopsWhenFound ==
    /\ x_pc \notin ExploreRaised
    /\ x_pc \in {"l407", "l419", "l435", "l449"} /\ C34_Updated
        => FoundInstances(x_mem, x_task, object_attempts) = <<>>
    /\ x_pc = "ret477" /\ x_matches # <<>>
        => /\ x_task # None
           /\ C34_Updated
           /\ x_matches = FoundInstances(x_mem, x_task, object_attempts)
    /\ x_pc = "ret477" /\ x_task = None => x_matches = <<>> /\ x_i = x_iter

\* The "obs_count += 1" statements that have stored their result.
C35_Increments ==
    (n_updates - (IF u_pc = "l187" THEN 1 ELSE 0))
        + (n_ticks - (IF b_pc = "l169" THEN 1 ELSE 0))

\* C35: whatever the interleaving of the publisher with update, obs_count is
\* the number of increments made by the update and publish_limited_obs calls
\* so far, and no publish is about to write a file name that a publish has
\* written already.
C35_UniqueSnapshotNames ==
    /\ obs_count = C35_Increments
    /\ u_pc \in {"l40", "l68"} => u_count \notin DOMAIN files

\* C36: every background publish that was started writes its record, with
\* the state label in it: none ends in an exception.
C36_PublishCompletes ==
    b_pc # "raise178"

\* C37: a mode-restricted command publishes a message or trajectory goal only
\* when base_control_mode is among its valid modes at the time of the call;
\* called in another mode it publishes nothing and leaves the robot state as
\* it was.
C37_ModeGating ==
    [][r_ncalls' # r_ncalls /\ r_last'[1].cmd \in Commands
        => /\ r_sent' # r_sent => base_control_mode \in ValidModes(r_last'[1].cmd)
           /\ base_control_mode \notin ValidModes(r_last'[1].cmd)
                => /\ r_sent' = r_sent
                   /\ UNCHANGED <<base_control_mode, bsae_control_mode, q_arm, q_lift>>]_vars

\* A command was published in a valid mode, and the last call, of a command
\* the mode does not allow, published nothing.
C37_Witness ==
    /\ r_last # <<>>
    /\ r_last[1].cmd \in Commands
    /\ r_last[1].mode \notin ValidModes(r_last[1].cmd)
    /\ r_sent # {}
    /\ \A m \in r_sent : m.cmd # r_last[1].cmd

\* The mode each switch is to establish.
C38_ModeOf(cmd) ==
    CASE cmd = "switch_to_velocity_mode" -> "VELOCITY"
      [] cmd = "switch_to_navigation_mode" -> "NAVIGATION"
      [] cmd = "switch_to_manipulation_mode" -> "MANIPULATION"

\* C38: when a mode switch has returned, base_control_mode is the mode it
\* switches to, and set_arm_joint_positions called right after
\* switch_to_manipulation_mode is let through.
C38_SwitchEstablishesMode ==
    /\ r_last # <<>> /\ r_last[1].cmd \notin Commands
        => base_control_mode = C38_ModeOf(r_last[1].cmd)
    /\ r_last # <<>> /\ r_last[1].cmd = "set_arm_joint_positions"
        /\ bsae_control_mode = "MANIPULATION"
        => r_last[1].out = "True"

\* C39: a command called in a mode outside its valid modes returns None; it
\* does not raise.
C39_DeniedReturnsNone ==
    r_last # <<>> /\ r_last[1].cmd \in Commands
        /\ r_last[1].mode \notin ValidModes(r_last[1].cmd)
        => r_last[1].out = "None"

\* C40: q_arm is the sum of the arm-segment positions of the most recent
\* message that carried arm segments.
C40_ArmIsLastSum ==
    r_arm_msg # <<>> => q_arm = r_arm_msg[1]

====
